---- MODULE Spec2Model ----
(***************************************************************************)
(* The WASAPI capture source (gstwasapisrc.c): the read path with its      *)
(* overflow buffer, the dual wait on the data-ready and stop events, the   *)
(* reset path, the device-loss notification and the prepare/unprepare      *)
(* lifecycle, together with the capture device the element drains.         *)
(*                                                                         *)
(* Bytes are integers: a byte captured by the device is its 1-based index  *)
(* in the device's byte stream (> 0), a zero byte written by memset is 0,  *)
(* and a byte of never-written memory is Uninit.                           *)
(***************************************************************************)
EXTENDS Integers, Sequences, FiniteSets, TLC

\* ------------------------------------------------------------------ bounds
MaxBurstFrames == 3     \* largest burst (packet) the device hands out
MaxReadFrames == 2      \* largest read, in frames
MaxFaults == 1          \* driver and wait calls that fail over a run
MaxResets == 1          \* calls of reset over a run
MaxSilent == 1          \* silence-flagged packets over a run
MaxSessions == 2        \* prepare/unprepare cycles on the element
DataFrames == 6         \* frames the device captures in a data-path run
CtrlFrames == 3         \* frames the device captures in a control-path run
SessFrames == 3         \* frames the device captures in a lifecycle run

\* mix_format->nBlockAlign values and device periods (frames) prepare may see
BlockAligns == {2}
DevicePeriods == {1}

\* sizes of the device's buffer, in device periods, that GetBufferSize may
\* report over the sessions of a lifecycle run
BufferPeriods == {1, 6}

\* content of g_malloc'ed or caller memory nobody has written yet
Uninit == -1

VARIABLES
  \* GstWasapiSrc fields
  client,                 \* self->client != NULL
  capture_client,         \* self->capture_client != NULL (prepared)
  device_strid,           \* self->device_strid != NULL (explicit device)
  default_changed,        \* self->change.default_changed
  nBlockAlign,            \* self->mix_format->nBlockAlign
  segsize,                \* spec->segsize
  spec_segtotal,          \* spec->segtotal
  client_needs_restart,
  eos_sent,
  object_lock,            \* GST_OBJECT_LOCK held
  overflow_buffer,        \* byte array, C index i is overflow_buffer[i + 1]
  overflow_buffer_size,
  overflow_buffer_ptr,
  overflow_buffer_length,
  event_handle,           \* auto-reset event, signalled
  stop_handle,            \* auto-reset event, signalled
  \* the capture device behind IAudioClient / IAudioCaptureClient
  running,                \* started and not stopped
  pending,                \* packets captured and not yet fetched
  invalidated,            \* device unplugged
  captured,               \* frames captured so far
  \* locals of gst_wasapi_src_read and its position
  pc,                     \* "idle", "wait" (dual wait), "fetch" (drain
                          \* loop), "returned" (result with the caller)
  length,
  wanted,
  data,                   \* the caller's buffer
  data_ptr,               \* offset of data_ptr in data
  ret,                    \* value the last read returned
  \* gst_wasapi_src_reset position
  reset_pc,               \* "idle", "lock" (stop signalled, lock not taken)
  \* the bus
  posted,                 \* "wasapi_restart" messages posted
  env,                    \* what the environment may still do in this run
  \* history of the run, read by the properties only
  obs,
  \* the pull side: GstAudioBaseSrc and the slaving fields of GstWasapiSrc
  ringbuffer,             \* src->ringbuffer: acquired, state, segdone,
                          \* segbase, samples_per_seg, spec.segtotal,
                          \* spec.segsize, bpf and rate of spec.info
  conf,                   \* what is fixed for a session: slave_method, the
                          \* element's clock, base_time, blocksize,
                          \* drift_correction_threshold, the audio clock's
                          \* time offset
  next_sample,            \* src->next_sample, NoSample for -1
  clock_time,             \* what gst_clock_get_time (clock) reads now
  initial_timestamp_diff,
  timeshifted_count,
  drift_correction_count,
  \* locals of gst_audio_base_src_create and its position
  create_pc,              \* "idle", "read" (the read loop), "done" (result
                          \* with the caller)
  sample,
  samples,
  total_samples,
  rb_timestamp,
  first,
  first_sample,
  outbuf,                 \* *outbuf, NoBuf when none is delivered
  flow,                   \* the GstFlowReturn of the last pull
  penv,                   \* what the pull side's environment may still do
  pobs                    \* history of the pull, read by the properties only

elemVars == <<client, capture_client, device_strid, default_changed,
              nBlockAlign, segsize, spec_segtotal, client_needs_restart,
              eos_sent, object_lock>>
ovfVars == <<overflow_buffer, overflow_buffer_size, overflow_buffer_ptr,
             overflow_buffer_length>>
evVars == <<event_handle, stop_handle>>
devVars == <<running, pending, invalidated, captured>>
readVars == <<pc, length, wanted, data, data_ptr, ret>>
wasapiVars == <<elemVars, ovfVars, evVars, devVars, readVars, reset_pc,
                posted, env, obs>>
pullVars == <<ringbuffer, conf, next_sample, clock_time,
              initial_timestamp_diff, timeshifted_count,
              drift_correction_count, create_pc, sample, samples,
              total_samples, rb_timestamp, first, first_sample, outbuf, flow,
              penv, pobs>>
vars == <<wasapiVars, pullVars>>

\* a call fails (failed = TRUE) only while the run's failure budget lasts
Fault(failed) ==
  /\ failed => env.faults > 0
  /\ env' = IF failed THEN [env EXCEPT !.faults = @ - 1] ELSE env

\* ----------------------------------------------------------------- helpers
MIN(a, b) == IF a < b THEN a ELSE b

MAX(a, b) == IF a > b THEN a ELSE b

\* memcpy (dst + off, src, Len(src))
Memcpy(dst, off, src) ==
  [i \in DOMAIN dst |->
     IF i > off /\ i <= off + Len(src) THEN src[i - off] ELSE dst[i]]

\* memset (dst + off, 0, n)
Memset(dst, off, n) ==
  [i \in DOMAIN dst |-> IF i > off /\ i <= off + n THEN 0 ELSE dst[i]]

\* the n bytes at &buf[off]; what lies outside the array is anybody's guess
BytesAt(buf, off, n) ==
  [i \in 1..n |-> IF off + i \in DOMAIN buf THEN buf[off + i] ELSE Uninit]

\* the bytes GetBuffer hands out for a packet
BurstBytes(b, bpf) == [i \in 1..(b.frames * bpf) |-> b.first + i - 1]

\* the packet as the consumer must hear it: silence-flagged is all zero
Rendered(b, bpf) ==
  [i \in 1..(b.frames * bpf) |-> IF b.silent THEN 0 ELSE b.first + i - 1]

Take(s, n) == SubSeq(s, 1, MIN(n, Len(s)))

Drop(s, n) == SubSeq(s, MIN(n, Len(s)) + 1, Len(s))

DevIds(s) == SelectSeq(s, LAMBDA x : x > 0)

NumDev(s) == Len(DevIds(s))

MaxOf(m, s) ==
  IF s = <<>> THEN m
  ELSE LET S == {s[i] : i \in DOMAIN s} \cup {m}
       IN CHOOSE x \in S : \A y \in S : y <= x

\* ------------------------------------------------------------ mutations
\* the silence flag is ignored: the packet is always copied
FillBytes_NoSilence(silent, from, read_len) == BytesAt(from, 0, read_len)

\* the restore always reads the start of the overflow buffer
PopOffset_Start(ptr) == 0

\* the spill always writes the start of the overflow buffer
SpillOffset_Start(ptr, ovlen) == 0

\* the capacity check looks at the spill alone, not at what is stored
SpillRejected_SpillOnly(ovlen, save_length, ptr, size) == save_length > size

\* the capacity check is missing: every remainder is spilled
SpillRejected_Never(ovlen, save_length, ptr, size) == FALSE

\* the frames wanted are taken to be the bytes wanted
WantFrames_Bytes(want, bpf) == want

\* the stop path zero-fills from the start of the caller's buffer
StopFill_FromStart(d, off, want) == Memset(d, 0, want)

\* the events are manual-reset: a wait leaves them signalled
EventAfterWait_Manual(signalled, index, r) == signalled

\* the wait watches the data-ready event only
WaitForMultipleObjects_DataOnly(ev, stop) == IF ev THEN 0 ELSE 2

\* a failed wait or GetBuffer leaves `length` as it was
FailedLength_Kept(len) == len

\* the packet is released with the frames that were copied
ReleaseFrames_Copied(have_frames, n_frames) == n_frames

\* ----------------------------------------------------- pieces of the read
\* n = MIN (overflow_buffer_length, wanted)
PopCount(ovlen, want) == MIN(ovlen, want)

\* ptr = &overflow_buffer[overflow_buffer_ptr]
PopOffset(ptr) == ptr

\* the overflow pointer moves on also when the restore empties the buffer
PopNextPtr_MoveOn(ptr, ovlen, n) == ptr + n

\* overflow pointer after restoring n of ovlen bytes
PopNextPtr(ptr, ovlen, n) == IF n = ovlen THEN 0 ELSE ptr + n

\* overflow_buffer_length + save_length + overflow_buffer_ptr > size
SpillRejected(ovlen, save_length, ptr, size) ==
  ovlen + save_length + ptr > size

\* write_ptr = &overflow_buffer[overflow_buffer_length]
SpillOffset(ptr, ovlen) == ovlen

\* from_ptr = &from_buffer[read_len]
SpillFrom(from, read_len, save_length) == BytesAt(from, read_len, save_length)

\* what goes to data_ptr for a packet: memset for a silence-flagged one,
\* memcpy from the packet otherwise
FillBytes(silent, from, read_len) ==
  IF silent THEN [i \in 1..read_len |-> 0] ELSE BytesAt(from, 0, read_len)

\* want_frames = wanted / nBlockAlign
WantFrames(want, bpf) == want \div bpf

\* WaitForMultipleObjects (2, {event_handle, stop_handle}, FALSE, INFINITE):
\* the lowest signalled index, "blocked" when neither is signalled
WaitForMultipleObjects(ev, stop) ==
  IF ev THEN 0 ELSE IF stop THEN 1 ELSE 2

\* an auto-reset event the wait returned for is reset by the wait
EventAfterWait(signalled, index, r) == IF r = index THEN FALSE ELSE signalled

\* the flag counts whether or not a device was selected
DefaultDeviceLost_AnyDevice(strid, changed) == changed

\* !self->device_strid && g_atomic_int_get (&change.default_changed)
DefaultDeviceLost(strid, changed) == ~strid /\ changed

\* the memset of the stop path: memset (data_ptr, 0, wanted)
StopFill(d, off, want) == Memset(d, off, want)

\* value of `length` after a failed wait or a failed GetBuffer
FailedLength(len) == 0

\* value of `length` after a failed ReleaseBuffer (goto beach, length kept)
ReleaseFailedLength(len) == len

\* the drain loop runs only while bytes are wanted
KeepDraining_WhileWanted(want) == want > 0

\* while (TRUE): the drain loop goes on whatever is still wanted
KeepDraining(want) == TRUE

\* IAudioCaptureClient_ReleaseBuffer (self->capture_client, have_frames): the
\* frame count the packet is released with
ReleaseFrames(have_frames, n_frames) == have_frames

\* the overflow buffer holds one segment
OverflowCapacity_OneSegment(seg) == seg

\* self->overflow_buffer_size = spec->segsize * 4
OverflowCapacity(seg) == seg * 4

\* spec->segtotal = MAX (buffer_frames * bpf / spec->segsize, 2) + 1
SegTotal(buffer_frames, bpf, segsz) ==
  MAX((buffer_frames * bpf) \div segsz, 2) + 1

\* ------------------------------------------------------------ observations
ObsInit ==
  [how |-> "none",          \* how the last read ended
   reqLen |-> 0,            \* the length the read was called with
   ovfStart |-> 0,          \* overflow_buffer_length when the read began
   ptrStart |-> 0,          \* overflow_buffer_ptr when the read began
   popped |-> <<>>,         \* spilled bytes due at the start of the read
   fifo |-> <<>>,           \* bytes spilled and not yet restored, in order
   cat |-> <<>>,            \* packets the read fetched, as rendered
   lastWait |-> "none",     \* result of the read's last wait
   lastFetch |-> "none",    \* outcome of the read's last GetBuffer
   stopBefore |-> FALSE,    \* reset signalled stop before the read began
   rejected |-> FALSE,      \* the read had a spill rejected
   prevMax |-> 0,           \* newest stream byte delivered before the read
   maxDelivered |-> 0,      \* newest stream byte delivered so far
   held |-> 0,              \* fetched stream bytes not yet accounted for
   sessLoss |-> FALSE,      \* a read of this session took the loss path
   sessPosted |-> 0,        \* notifications posted in this session
   unreleased |-> 0,        \* frames fetched and not passed to ReleaseBuffer
   sessBase |-> 0,          \* newest stream byte captured before the session
   freed |-> 0]             \* valid overflow bytes the last unprepare freed

\* what outlives a read: the session's and the stream's accounts
ObsKeep(o) ==
  [ObsInit EXCEPT !.maxDelivered = o.maxDelivered, !.held = o.held,
                  !.fifo = o.fifo,
                  !.sessLoss = o.sessLoss, !.sessPosted = o.sessPosted,
                  !.unreleased = o.unreleased, !.sessBase = o.sessBase,
                  !.freed = o.freed]

\* the read returns retval with the caller's buffer holding d
ObsReturn(o, retval, howv, d) ==
  [o EXCEPT !.how = howv,
            !.prevMax = o.maxDelivered,
            !.maxDelivered = IF retval > 0 THEN MaxOf(@, DevIds(d)) ELSE @,
            !.held = @ - NumDev(d)]

\* ------------------------------------------------------ bounds of the pull
MaxPulls == 3           \* calls of create over a slaving run
MaxWrites == 2          \* segments the producer writes over a run
MaxTicks == 3           \* steps of the reference clock over a run
CtlPulls == 2           \* calls of create over a control-path run
MaxShortReads == 1      \* ring buffer reads that come back short over a run
MaxPullFaults == 1      \* failing allocations and refused waits over a run
MaxOffsetSample == 12   \* largest next_sample the offset calculator is given
MaxOffsetSegdone == 6   \* largest write-segment count it is given
SessionPulls == 4       \* calls of create over a run of several sessions
MaxRestarts == 1        \* sessions that follow the first over such a run

\* GST_SECOND, the TIME_UNIT of the timestamps (nanoseconds)
GST_SECOND == 1000000000

\* 50 * 100000 nanoseconds
DEFAULT_DRIFT_CORRECTION_THRESHOLD == 50 * 100000

GST_CLOCK_TIME_NONE == -1

\* src->next_sample == -1: no pull has been served yet
NoSample == -1

\* no buffer is handed to the caller
NoBuf == <<>>

\* one step of the reference clock: 10 ms
ClockStep == GST_SECOND \div 100

\* base times of the element: 0 and 10 ms
BaseTimes == {0, GST_SECOND \div 100}

\* sample rates, segment sizes in frames, segment counts and frame sizes of
\* a session: 8 kHz, 10 ms segments
Rates == {8000}
SegmentSamples == {80}
SegTotals == {2}
FrameSizes == {2}

SlaveMethods == {"resample", "skew", "retimestamp", "none"}

\* GST_ELEMENT_CLOCK (src): none, the source's own audio clock, or another
Clocks == {"none", "own", "foreign"}

\* --------------------------------------------------- mutations of the pull
\* the lag test of the offset calculator lets a lag of segtotal through
gst_audio_base_src_get_offset_Late(nsample, rb) ==
  LET sps == rb.samples_per_seg
      segdone == rb.segdone - rb.segbase
  IN IF nsample # NoSample
     THEN IF segdone - (nsample \div sps) > rb.segtotal
          THEN segdone * sps ELSE nsample
     ELSE segdone * sps

\* the offset calculator never catches up with the producer
gst_audio_base_src_get_offset_Stay(nsample, rb) ==
  IF nsample # NoSample THEN nsample
  ELSE (rb.segdone - rb.segbase) * rb.samples_per_seg

\* the read loop retries from the sample it read from before
NextChunkSample_Stay(smp, read) == smp

\* the read loop retries for as many frames as before
RemainingSamples_All(smps, read) == smps

\* the sequential-access check compares the byte offset with the sample
WrongOffset_Bytes(offset, bpf, nsample) ==
  nsample # NoSample /\ offset # nsample

\* the read loop never looks at the ring buffer's state
RingBufferErrored_Never(state) == FALSE

\* the cold-start trigger (read segment 0) is missing
NeedResync_NoColdStart(skew, segtotal, last_read, fs, drift_correction) ==
  skew >= segtotal \/ fs \/ drift_correction

\* a fired drift correction does not force the resync
NeedResync_NoDrift(skew, segtotal, last_read, fs, drift_correction) ==
  skew >= segtotal \/ last_read = 0 \/ fs

\* a drift equal to the threshold fires
DriftCorrection_AtThreshold(drift_ns, threshold) == drift_ns >= threshold

\* the latency is not subtracted
ReTimestamp_NoLatency(clk, base, tot, rate) ==
  IF clk > base THEN clk - base ELSE 0

\* ------------------------------------------------------ pieces of the pull
ABS(x) == IF x < 0 THEN -x ELSE x

\* GST_CLOCK_DIFF (s, e): (GstClockTimeDiff) ((e) - (s))
GST_CLOCK_DIFF(s, e) == e - s

GST_CLOCK_TIME_IS_VALID(t) == t # GST_CLOCK_TIME_NONE

\* gst_util_uint64_scale_int: floor (val * num / denom), evaluated without
\* the wide product when one of num and denom divides the other
gst_util_uint64_scale_int(val, num, denom) ==
  IF num % denom = 0 THEN val * (num \div denom)
  ELSE IF denom % num = 0 THEN val \div (denom \div num)
  ELSE (val * num) \div denom

\* gst_audio_base_src_get_offset: the sample the next pull reads from
gst_audio_base_src_get_offset(nsample, rb) ==
  LET sps == rb.samples_per_seg
      segtotal == rb.segtotal
      segdone == rb.segdone - rb.segbase
  IN IF nsample # NoSample
     THEN LET readseg == nsample \div sps
              diff == segdone - readseg
          IN IF diff >= segtotal THEN segdone * sps ELSE nsample
     ELSE segdone * sps

\* the length create works with: the segment size when none is given, else
\* rounded down to whole frames
PullLength(len, blocksize, segsz, bpf) ==
  IF (len = 0 /\ blocksize = 0) \/ len = -1 THEN segsz
  ELSE len - (len % bpf)

\* an explicit offset that is not the next sequential sample
WrongOffset(offset, bpf, nsample) ==
  nsample # NoSample /\ (offset \div bpf) # nsample

\* g_atomic_int_get (&ringbuffer->state) == GST_AUDIO_RING_BUFFER_STATE_ERROR
RingBufferErrored(state) == state = "error"

\* sample += read: where the read loop goes on after a short read
NextChunkSample(smp, read) == smp + read

\* samples -= read: what the read loop still has to read
RemainingSamples(smps, read) == smps - read

\* the buffer is flagged DISCONT
Discont(smp, nsample) == smp # nsample /\ nsample # NoSample

\* running_time_segment of the skew branches
RunningTimeSegment(clk, base, rate, sps) ==
  gst_util_uint64_scale_int(clk - base, rate, GST_SECOND) \div sps

\* last_written_segment = segments_written - segbase - 1
LastWrittenSegment(rb) == rb.segdone - rb.segbase - 1

\* the condition of the resync
NeedResync(segment_skew, segtotal, last_read_segment, fs, drift_correction) ==
  \/ segment_skew >= segtotal
  \/ last_read_segment = 0
  \/ fs
  \/ drift_correction

\* timestamp_diff = ABS (GST_CLOCK_DIFF (timestamp, base_time))
TimestampDiff(timestamp, base) == ABS(GST_CLOCK_DIFF(timestamp, base))

\* initial_timestamp_diff after the latch of the second sample
LatchInitialDiff(fs, init, timestamp_diff) ==
  IF ~fs /\ init = 0 THEN timestamp_diff ELSE init

\* drift_ns
DriftNs(init, timestamp_diff) ==
  IF timestamp_diff > 0 THEN ABS(init - timestamp_diff) ELSE 0

\* drift_ns > self->drift_correction_threshold
DriftCorrection(drift_ns, threshold) == drift_ns > threshold

\* gst_audio_ring_buffer_advance: the write-segment counter moves by advance
gst_audio_ring_buffer_advance(segdone, advance) == segdone + advance

\* new_read_segment of a resync, segdone being the counter after the advance
NewReadSegment(method, running_time_segment, segment_diff, segdone, segbase) ==
  IF method = "resample" /\ segment_diff = 0
  THEN running_time_segment
  ELSE segdone - segbase

\* the result of a pull that no slaving touches
Plain(rb, smp, smps, init, ts) ==
  [timestamp |-> ts, next_sample |-> smp + smps, segdone |-> rb.segdone,
   initial |-> init, resync |-> FALSE, fired |-> FALSE,
   timestamp_diff |-> 0, latched |-> init, drift_ns |-> 0,
   segment_skew |-> 0]

\* case GST_AUDIO_BASE_SRC_SLAVE_RESAMPLE and case GST_AUDIO_BASE_SRC_SLAVE_SKEW
SkewSlave(method, rb, c, clk, smp, smps, fs, init, ts) ==
  LET sps == rb.samples_per_seg
      running_time_segment ==
        RunningTimeSegment(clk, c.base_time, rb.rate, sps)
      last_written_segment == LastWrittenSegment(rb)
      last_read_segment == smp \div sps
      segment_skew == running_time_segment - last_written_segment
      timestamp_diff == TimestampDiff(ts, c.base_time)
      latched == IF method = "resample"
                 THEN LatchInitialDiff(fs, init, timestamp_diff) ELSE init
      drift_ns == IF method = "resample"
                  THEN DriftNs(latched, timestamp_diff) ELSE 0
      drift_correction ==
        /\ method = "resample"
        /\ DriftCorrection(drift_ns, c.drift_correction_threshold)
      resync == NeedResync(segment_skew, rb.segtotal, last_read_segment, fs,
                           drift_correction)
      segment_diff == running_time_segment - last_written_segment
      segdone == IF resync /\ (method = "skew" \/ segment_diff # 0)
                 THEN gst_audio_ring_buffer_advance(rb.segdone, segment_diff)
                 ELSE rb.segdone
      new_sample == NewReadSegment(method, running_time_segment,
                                   segment_diff, segdone, rb.segbase) * sps
  IN [timestamp |-> IF resync
                    THEN gst_util_uint64_scale_int(new_sample, GST_SECOND,
                                                   rb.rate)
                    ELSE ts,
      next_sample |-> IF resync THEN new_sample + smps ELSE smp + smps,
      segdone |-> segdone,
      initial |-> IF drift_correction THEN 0 ELSE latched,
      resync |-> resync,
      fired |-> drift_correction,
      timestamp_diff |-> IF method = "resample" THEN timestamp_diff ELSE 0,
      latched |-> latched,
      drift_ns |-> drift_ns,
      segment_skew |-> segment_skew]

\* case GST_AUDIO_BASE_SRC_SLAVE_RE_TIMESTAMP: the clock's running time less
\* the latency of the buffer, not below zero
ReTimestamp(clk, base, tot, rate) ==
  LET t == IF GST_CLOCK_DIFF(clk, base) < 0 THEN clk - base ELSE 0
      latency == gst_util_uint64_scale_int(tot, GST_SECOND, rate)
  IN IF t > latency THEN t - latency ELSE 0

\* not slaved: the ring buffer's timestamp, or the sample's adjusted by the
\* audio clock, less base_time and not below zero
NotSlaved(ts, rbts, base, time_offset) ==
  LET t == IF GST_CLOCK_TIME_IS_VALID(rbts) THEN rbts ELSE ts + time_offset
  IN IF GST_CLOCK_DIFF(t, base) < 0 THEN t - base ELSE 0

\* a timestamping that runs the resample slaving whatever the method and clock
Timestamping_SlaveAll(rb, c, clk, smp, smps, tot, fs, init, rbts) ==
  SkewSlave("resample", rb, c, clk, smp, smps, fs, init,
            gst_util_uint64_scale_int(smp, GST_SECOND, rb.rate))

\* the timestamping of a completed read, from GST_OBJECT_LOCK to no_sync
Timestamping(rb, c, clk, smp, smps, tot, fs, init, rbts) ==
  LET ts == gst_util_uint64_scale_int(smp, GST_SECOND, rb.rate)
      plain == Plain(rb, smp, smps, init, ts)
  IN IF c.clock = "none" THEN plain
     ELSE IF ~GST_CLOCK_TIME_IS_VALID(rbts) /\ c.clock = "foreign"
     THEN IF c.slave_method \in {"resample", "skew"}
          THEN SkewSlave(c.slave_method, rb, c, clk, smp, smps, fs, init, ts)
          ELSE IF c.slave_method = "retimestamp"
          THEN [plain EXCEPT
                  !.timestamp = ReTimestamp(clk, c.base_time, tot, rb.rate)]
          ELSE plain
     ELSE [plain EXCEPT
             !.timestamp = NotSlaved(ts, rbts, c.base_time, c.time_offset)]

\* ------------------------------------------------- observations of the pull
PObsInit ==
  [offset |-> -1,           \* the offset the pull was called with
   start |-> -1,            \* the sample the pull started reading at
   lastRead |-> -1,         \* frames the last ring buffer read returned
   lastTs |-> -1,           \* the timestamp it returned
   filled |-> 0,            \* frames the reads have put in the buffer
   resync |-> FALSE,        \* the pull resynced
   fired |-> FALSE,         \* the pull's drift correction fired
   clock |-> -1,            \* the clock reading the pull timestamped with
   timestamp |-> -1,        \* the sample-derived timestamp of the pull
   timestamp_diff |-> 0,    \* its timestamp_diff
   latched |-> 0,           \* initial_timestamp_diff its drift was taken from
   pair |-> FALSE,          \* the pull before it completed at the same clock
                            \* reading and the producer wrote nothing since
   pairResync |-> FALSE,    \* ... and that pull resynced
   lastResync |-> FALSE,    \* the last completed pull resynced
   quiet |-> FALSE,         \* a pull completed, and since then the clock
                            \* has not moved and the producer has not written
   done |-> 0,              \* pulls the session has completed: 0, 1, 2 or more
   insync |-> TRUE]         \* at every pull the session has completed, the
                            \* clock's running time was the sample-derived
                            \* timestamp and segment_skew was below segtotal

\* what outlives a pull
PObsKeep(o) ==
  [PObsInit EXCEPT !.lastResync = o.lastResync, !.quiet = o.quiet,
                   !.done = o.done, !.insync = o.insync]

\* the pull completes with result r at clock reading clk, base_time base
PObsComplete(o, r, clk, ts, base, segtotal) ==
  [o EXCEPT !.resync = r.resync, !.fired = r.fired, !.clock = clk,
            !.timestamp = ts, !.timestamp_diff = r.timestamp_diff,
            !.latched = r.latched,
            !.pair = o.quiet,
            !.pairResync = (o.quiet /\ o.lastResync),
            !.lastResync = r.resync, !.quiet = TRUE,
            !.done = IF @ < 2 THEN @ + 1 ELSE @,
            !.insync = (@ /\ clk - base = ts /\ r.segment_skew < segtotal)]

\* the pull fails
PObsFail(o) == [o EXCEPT !.lastResync = FALSE, !.quiet = FALSE]

\* ------------------------------------------------------- Init of the pull
PullInitWith(rb, c, e, n) ==
  /\ ringbuffer = rb
  /\ conf = c
  /\ next_sample = n
  /\ clock_time = c.base_time
  /\ initial_timestamp_diff = 0
  /\ timeshifted_count = 0
  /\ drift_correction_count = 0
  /\ create_pc = "idle"
  /\ sample = 0
  /\ samples = 0
  /\ total_samples = 0
  /\ rb_timestamp = GST_CLOCK_TIME_NONE
  /\ first = FALSE
  /\ first_sample = FALSE
  /\ outbuf = NoBuf
  /\ flow = "none"
  /\ penv = e
  /\ pobs = PObsInit

\* a ring buffer of segtotal segments of sps frames, not yet acquired
RingBuffer(sps, segtotal, bpf, rate) ==
  [acquired |-> FALSE, state |-> "started", segdone |-> 0, segbase |-> 0,
   samples_per_seg |-> sps, segtotal |-> segtotal, segsize |-> sps * bpf,
   bpf |-> bpf, rate |-> rate]

RingBuffers ==
  {RingBuffer(sps, t, b, r) :
     sps \in SegmentSamples, t \in SegTotals, b \in FrameSizes, r \in Rates}

Confs ==
  [slave_method : SlaveMethods, clock : Clocks, base_time : BaseTimes,
   blocksize : {0},
   drift_correction_threshold : {DEFAULT_DRIFT_CORRECTION_THRESHOLD},
   time_offset : {0}]

\* the pull side at rest, in the runs of the capture side
QuietEnv ==
  [pulls |-> 0, writes |-> 0, ticks |-> 0, shorts |-> 0, faults |-> 0,
   restarts |-> 0]

QuietPull ==
  PullInitWith(RingBuffer(1, 2, 2, 1),
               [slave_method |-> "skew", clock |-> "none", base_time |-> 0,
                blocksize |-> 0,
                drift_correction_threshold |->
                  DEFAULT_DRIFT_CORRECTION_THRESHOLD,
                time_offset |-> 0],
               QuietEnv, NoSample)

\* the environment of a control-path run of create (offsets, short reads,
\* failures) and of a slaving run (the producer and the reference clock)
PullEnv ==
  [pulls |-> CtlPulls, writes |-> 1, ticks |-> 0,
   shorts |-> MaxShortReads, faults |-> MaxPullFaults, restarts |-> 0]

SlaveEnv ==
  [pulls |-> MaxPulls, writes |-> MaxWrites, ticks |-> MaxTicks,
   shorts |-> 0, faults |-> 0, restarts |-> 0]

\* the environment of a run of resample slaving over several sessions
ResampleEnv ==
  [pulls |-> SessionPulls, writes |-> MaxWrites, ticks |-> MaxTicks,
   shorts |-> 0, faults |-> 0, restarts |-> MaxRestarts]

\* --------------------------------------------------------------------- Init
InitWith(e) ==
  /\ client = FALSE
  /\ capture_client = FALSE
  /\ device_strid \in BOOLEAN
  /\ default_changed = FALSE
  /\ nBlockAlign = 0
  /\ segsize = 0
  /\ spec_segtotal = 0
  /\ client_needs_restart = FALSE
  /\ eos_sent = FALSE
  /\ object_lock = FALSE
  /\ overflow_buffer = <<>>
  /\ overflow_buffer_size = 0
  /\ overflow_buffer_ptr = 0
  /\ overflow_buffer_length = 0
  /\ event_handle = FALSE
  /\ stop_handle = FALSE
  /\ running = FALSE
  /\ pending = <<>>
  /\ invalidated = FALSE
  /\ captured = 0
  /\ pc = "idle"
  /\ length = 0
  /\ wanted = 0
  /\ data = <<>>
  /\ data_ptr = 0
  /\ ret = 0
  /\ reset_pc = "idle"
  /\ posted = 0
  /\ env = e
  /\ obs = ObsInit

\* the environment of a control-path run, of a data-path run and of a
\* lifecycle run
CtrlEnv ==
  [frames |-> CtrlFrames, faults |-> MaxFaults, resets |-> MaxResets,
   silents |-> 0, sessions |-> 1, reset |-> FALSE]

DataEnv ==
  [frames |-> DataFrames, faults |-> MaxFaults, resets |-> 0,
   silents |-> MaxSilent, sessions |-> 1, reset |-> FALSE]

SessEnv ==
  [frames |-> SessFrames, faults |-> 0, resets |-> 0, silents |-> 0,
   sessions |-> MaxSessions, reset |-> FALSE]

Init == InitWith(CtrlEnv) /\ QuietPull

\* ---------------------------------------------------------------- lifecycle
\* gst_wasapi_src_open: obtains the device and its client
Open ==
  /\ ~client
  /\ pc = "idle" /\ reset_pc = "idle"
  /\ \E ok \in BOOLEAN :
       /\ client' = ok
       /\ invalidated' = IF ok THEN FALSE ELSE invalidated
  /\ UNCHANGED <<capture_client, device_strid, default_changed, nBlockAlign,
                 segsize, spec_segtotal, client_needs_restart, eos_sent,
                 object_lock,
                 ovfVars, evVars, running, pending, captured, readVars,
                 reset_pc, posted, env, obs>>
  /\ UNCHANGED pullVars

\* gst_wasapi_src_close
Close ==
  /\ client /\ ~capture_client
  /\ pc = "idle" /\ reset_pc = "idle"
  /\ client' = FALSE
  /\ running' = FALSE
  /\ pending' = <<>>
  /\ UNCHANGED <<capture_client, device_strid, default_changed, nBlockAlign,
                 segsize, spec_segtotal, client_needs_restart, eos_sent,
                 object_lock,
                 ovfVars, evVars, invalidated, captured, readVars, reset_pc,
                 posted, env, obs>>
  /\ UNCHANGED pullVars

\* gst_wasapi_src_prepare, every step succeeding
Prepare(bpf, devicep_frames, buffer_frames) ==
  /\ client /\ ~capture_client
  /\ pc = "idle" /\ reset_pc = "idle"
  /\ nBlockAlign' = bpf
  /\ segsize' = devicep_frames * bpf
  /\ spec_segtotal' = SegTotal(buffer_frames, bpf, devicep_frames * bpf)
  /\ overflow_buffer_size' = OverflowCapacity(devicep_frames * bpf)
  /\ overflow_buffer_ptr' = 0
  /\ overflow_buffer_length' = 0
  /\ overflow_buffer' =
       [i \in 1..OverflowCapacity(devicep_frames * bpf) |-> Uninit]
  /\ capture_client' = TRUE
  /\ running' = TRUE
  /\ pending' = <<>>
  /\ env.sessions > 0
  /\ env' = [env EXCEPT !.sessions = @ - 1]
  /\ UNCHANGED <<client, device_strid, default_changed, client_needs_restart,
                 eos_sent, object_lock, evVars, invalidated, captured,
                 readVars, reset_pc, posted, obs>>
  /\ UNCHANGED pullVars

\* gst_wasapi_src_prepare failing at one of its steps: it runs unprepare
\* itself, which stops the client and frees the overflow buffer if the
\* failure came after its allocation
PrepareFail ==
  /\ client /\ ~capture_client
  /\ pc = "idle" /\ reset_pc = "idle"
  /\ running' = FALSE
  /\ UNCHANGED <<elemVars, ovfVars, evVars, pending, invalidated, captured,
                 readVars, reset_pc, posted, env, obs>>
  /\ UNCHANGED pullVars

\* gst_wasapi_src_unprepare
Unprepare ==
  /\ capture_client
  /\ pc = "idle" /\ reset_pc = "idle"
  /\ running' = FALSE
  /\ capture_client' = FALSE
  /\ overflow_buffer' = <<>>
  /\ overflow_buffer_size' = 0
  /\ overflow_buffer_ptr' = 0
  /\ overflow_buffer_length' = 0
  /\ obs' = [ObsInit EXCEPT !.maxDelivered = obs.maxDelivered,
                            !.sessBase = captured * nBlockAlign,
                            !.freed = overflow_buffer_length]
  /\ pending' = <<>>
  /\ UNCHANGED <<client, device_strid, default_changed, nBlockAlign, segsize,
                 spec_segtotal,
                 client_needs_restart, eos_sent, object_lock, evVars,
                 invalidated, captured, readVars, reset_pc, posted, env>>
  /\ UNCHANGED pullVars

\* ------------------------------------------------------------------- device
\* the device captures a packet of n frames and signals the data-ready event
DeviceCapture(n, silent) ==
  /\ capture_client /\ running /\ ~invalidated
  /\ n <= env.frames
  /\ silent => env.silents > 0
  /\ env' = [env EXCEPT !.frames = @ - n,
                        !.silents = IF silent THEN @ - 1 ELSE @]
  /\ pending' = Append(pending, [first |-> captured * nBlockAlign + 1,
                                 frames |-> n, silent |-> silent])
  /\ captured' = captured + n
  /\ event_handle' = TRUE
  /\ UNCHANGED <<elemVars, ovfVars, stop_handle, running, invalidated,
                 readVars, reset_pc, posted, obs>>
  /\ UNCHANGED pullVars

\* the device is unplugged: GetBuffer reports AUDCLNT_E_DEVICE_INVALIDATED
DeviceInvalidate ==
  /\ capture_client /\ ~invalidated
  /\ invalidated' = TRUE
  /\ UNCHANGED <<elemVars, ovfVars, evVars, running, pending, captured,
                 readVars, reset_pc, posted, env, obs>>
  /\ UNCHANGED pullVars

\* the notification client registered at open sets change.default_changed
DefaultChanged ==
  /\ client /\ ~default_changed
  /\ default_changed' = TRUE
  /\ UNCHANGED <<client, capture_client, device_strid, nBlockAlign, segsize,
                 spec_segtotal,
                 client_needs_restart, eos_sent, object_lock, ovfVars, evVars,
                 devVars, readVars, reset_pc, posted, env, obs>>
  /\ UNCHANGED pullVars

\* -------------------------------------------------------------------- reset
\* gst_wasapi_src_reset up to taking the object lock: SetEvent (stop_handle),
\* and return if there is no client
ResetSignal ==
  /\ reset_pc = "idle"
  /\ env.resets > 0
  /\ env' = [env EXCEPT !.resets = @ - 1, !.reset = TRUE]
  /\ stop_handle' = TRUE
  /\ reset_pc' = IF client THEN "lock" ELSE "idle"
  /\ UNCHANGED <<elemVars, ovfVars, event_handle, devVars, readVars, posted,
                 obs>>
  /\ UNCHANGED pullVars

\* gst_wasapi_src_reset under the object lock: Stop, Reset, needs-restart.
\* A failing Stop or Reset returns through HR_FAILED_RET with the lock held.
ResetLocked(outcome) ==
  /\ reset_pc = "lock"
  /\ ~object_lock
  /\ Fault(outcome # "ok")
  /\ reset_pc' = "idle"
  /\ running' = IF outcome = "stopfail" THEN running ELSE FALSE
  /\ pending' = IF outcome = "ok" THEN <<>> ELSE pending
  /\ client_needs_restart' =
       IF outcome = "ok" THEN TRUE ELSE client_needs_restart
  /\ object_lock' = (outcome # "ok")
  /\ UNCHANGED <<client, capture_client, device_strid, default_changed,
                 nBlockAlign, segsize, spec_segtotal, eos_sent, ovfVars,
                 evVars, invalidated,
                 captured, readVars, posted, obs>>
  /\ UNCHANGED pullVars

\* --------------------------------------------------------------------- read
\* `return length` (label beach, or the end of device_disappeared): the
\* caller gets retval and its buffer d back, the locals die
Return(retval, howv, o, d) ==
  /\ pc' = "returned"
  /\ ret' = retval
  /\ data' = d
  /\ length' = 0
  /\ wanted' = 0
  /\ data_ptr' = 0
  /\ obs' = ObsReturn(o, retval, howv, d)

\* the read goes on at position p with `wanted` w, buffer d, data_ptr at dp
Continue(p, w, d, dp, o) ==
  /\ pc' = p
  /\ wanted' = w
  /\ data' = d
  /\ data_ptr' = dp
  /\ obs' = o
  /\ UNCHANGED <<ret, length>>

\* label device_disappeared: post "wasapi_restart" unless eos_sent, then
\* return length
DeviceDisappeared(o, d) ==
  /\ eos_sent' = TRUE
  /\ posted' = IF eos_sent THEN posted ELSE posted + 1
  /\ Return(length, "lost",
            [o EXCEPT !.sessLoss = TRUE,
                      !.sessPosted = IF eos_sent THEN @ ELSE @ + 1], d)

\* gst_wasapi_src_read from its entry to the first wait: the restart under
\* the object lock, then the restore from the overflow buffer
ReadBegin(L, startOk) ==
  /\ pc = "idle"
  /\ capture_client
  /\ ~object_lock
  /\ Fault(client_needs_restart /\ ~startOk)
  /\ LET fresh == [i \in 1..L |-> Uninit]
         o == [obs EXCEPT !.how = "none", !.reqLen = L,
                          !.ovfStart = overflow_buffer_length,
                          !.ptrStart = overflow_buffer_ptr,
                          !.popped = Take(obs.fifo, L),
                          !.cat = <<>>, !.lastWait = "none",
                          !.lastFetch = "none", !.stopBefore = env.reset,
                          !.rejected = FALSE]
     IN IF client_needs_restart /\ ~startOk
        THEN \* IAudioClient_Start failed: length = 0; goto beach, lock held
             /\ object_lock' = TRUE
             /\ Return(0, "startfail", o, fresh)
             /\ UNCHANGED <<client_needs_restart, running, ovfVars>>
        ELSE LET n == PopCount(overflow_buffer_length, L)
                 d == Memcpy(fresh, 0,
                             BytesAt(overflow_buffer,
                                     PopOffset(overflow_buffer_ptr), n))
             IN /\ object_lock' = FALSE
                /\ client_needs_restart' = FALSE
                /\ running' = (running \/ client_needs_restart)
                /\ overflow_buffer_ptr' =
                     IF overflow_buffer_length > 0
                     THEN PopNextPtr(overflow_buffer_ptr,
                                     overflow_buffer_length, n)
                     ELSE overflow_buffer_ptr
                /\ overflow_buffer_length' = overflow_buffer_length - n
                /\ IF L - n > 0
                   THEN /\ pc' = "wait"
                        /\ length' = L
                        /\ wanted' = L - n
                        /\ data' = d
                        /\ data_ptr' = n
                        /\ obs' = [o EXCEPT !.fifo = Drop(@, L)]
                        /\ ret' = ret
                   ELSE Return(L, "ok", [o EXCEPT !.fifo = Drop(@, L)], d)
                /\ UNCHANGED <<overflow_buffer, overflow_buffer_size>>
  /\ UNCHANGED <<client, capture_client, device_strid, default_changed,
                 nBlockAlign, segsize, spec_segtotal, eos_sent, evVars,
                 pending, invalidated,
                 captured, reset_pc, posted>>
  /\ UNCHANGED pullVars

\* the dual wait returns for a signalled event; the default-device check
\* comes before the switch on the wait result
ReadWaitWake ==
  /\ pc = "wait"
  /\ LET r == WaitForMultipleObjects(event_handle, stop_handle)
         o == [obs EXCEPT !.lastWait = IF r = 0 THEN "data" ELSE "stop"]
     IN /\ r \in {0, 1}
        /\ event_handle' = EventAfterWait(event_handle, 0, r)
        /\ stop_handle' = EventAfterWait(stop_handle, 1, r)
        /\ IF DefaultDeviceLost(device_strid, default_changed)
           THEN DeviceDisappeared(o, data)
           ELSE IF r = 0
           THEN /\ Continue("fetch", wanted, data, data_ptr, o)
                /\ UNCHANGED <<eos_sent, posted>>
           ELSE \* WAIT_OBJECT_0 + 1: memset (data_ptr, 0, wanted); goto beach
                /\ Return(length, "stop", o, StopFill(data, data_ptr, wanted))
                /\ UNCHANGED <<eos_sent, posted>>
  /\ UNCHANGED <<client, capture_client, device_strid, default_changed,
                 nBlockAlign, segsize, spec_segtotal, client_needs_restart,
                 object_lock,
                 ovfVars, devVars, reset_pc, env>>
  /\ UNCHANGED pullVars

\* the dual wait itself fails (the default branch of the switch)
ReadWaitFail ==
  /\ pc = "wait"
  /\ Fault(TRUE)
  /\ LET o == [obs EXCEPT !.lastWait = "failed"]
     IN IF DefaultDeviceLost(device_strid, default_changed)
        THEN DeviceDisappeared(o, data)
        ELSE /\ Return(FailedLength(length), "waitfail", o, data)
             /\ UNCHANGED <<eos_sent, posted>>
  /\ UNCHANGED <<client, capture_client, device_strid, default_changed,
                 nBlockAlign, segsize, spec_segtotal, client_needs_restart,
                 object_lock,
                 ovfVars, evVars, devVars, reset_pc>>
  /\ UNCHANGED pullVars

\* one turn of the drain loop: GetBuffer, then for a packet the copy or
\* zero-fill, the spill to the overflow buffer and ReleaseBuffer
ReadFetch(releaseOk) ==
  /\ pc = "fetch"
  /\ Fault(~releaseOk /\ ~invalidated /\ pending # <<>>)
  /\ IF invalidated
     THEN \* AUDCLNT_E_DEVICE_INVALIDATED
          /\ DeviceDisappeared([obs EXCEPT !.lastFetch = "invalidated"], data)
          /\ UNCHANGED <<ovfVars, pending>>
     ELSE IF pending = <<>>
     THEN \* AUDCLNT_S_BUFFER_EMPTY: break, back to while (wanted > 0)
          /\ LET o == [obs EXCEPT !.lastFetch = "empty"]
             IN IF wanted > 0
                THEN Continue("wait", wanted, data, data_ptr, o)
                ELSE Return(length, "ok", o, data)
          /\ UNCHANGED <<ovfVars, pending, eos_sent, posted>>
     ELSE LET b == Head(pending)
              from == BurstBytes(b, nBlockAlign)
              have_frames == b.frames
              want_frames == WantFrames(wanted, nBlockAlign)
              n_frames == MIN(have_frames, want_frames)
              read_len == n_frames * nBlockAlign
              d == Memcpy(data, data_ptr, FillBytes(b.silent, from, read_len))
              spill == have_frames > want_frames
              save_frames == have_frames - want_frames
              save_length == save_frames * nBlockAlign
              rejected == spill /\ SpillRejected(overflow_buffer_length,
                                                 save_length,
                                                 overflow_buffer_ptr,
                                                 overflow_buffer_size)
              saved == spill /\ ~rejected
              o == [obs EXCEPT
                      !.lastFetch = IF rejected THEN "rejected"
                                    ELSE IF saved THEN "spilled" ELSE "copied",
                      !.fifo = IF saved
                               THEN @ \o SubSeq(from, read_len + 1, Len(from))
                               ELSE @,
                      !.cat = Take(@ \o Rendered(b, nBlockAlign), obs.reqLen),
                      !.rejected = @ \/ rejected,
                      !.held = @ + have_frames * nBlockAlign
                                 - (IF b.silent THEN read_len ELSE 0)
                                 - (IF rejected THEN save_length ELSE 0),
                      !.unreleased =
                        @ + have_frames - ReleaseFrames(have_frames, n_frames)]
          IN /\ pending' = Tail(pending)
             /\ overflow_buffer' =
                  IF saved
                  THEN Memcpy(overflow_buffer,
                              SpillOffset(overflow_buffer_ptr,
                                          overflow_buffer_length),
                              SpillFrom(from, read_len, save_length))
                  ELSE overflow_buffer
             /\ overflow_buffer_length' =
                  IF saved THEN overflow_buffer_length + save_length
                  ELSE overflow_buffer_length
             /\ IF ~releaseOk
                THEN \* HR_FAILED_AND (hr, ReleaseBuffer, goto beach)
                     Return(ReleaseFailedLength(length), "releasefail", o, d)
                ELSE IF KeepDraining(wanted - read_len)
                THEN Continue("fetch", wanted - read_len, d,
                              data_ptr + read_len, o)
                ELSE IF wanted - read_len > 0
                THEN Continue("wait", wanted - read_len, d,
                              data_ptr + read_len, o)
                ELSE Return(length, "ok", o, d)
             /\ UNCHANGED <<overflow_buffer_size, overflow_buffer_ptr,
                            eos_sent, posted>>
  /\ UNCHANGED <<client, capture_client, device_strid, default_changed,
                 nBlockAlign, segsize, spec_segtotal, client_needs_restart,
                 object_lock,
                 evVars, running, invalidated, captured, reset_pc>>
  /\ UNCHANGED pullVars

\* the caller (the ring buffer's capture thread) has taken the result
ReadDone ==
  /\ pc = "returned"
  /\ pc' = "idle"
  /\ ret' = 0
  /\ data' = <<>>
  /\ obs' = ObsKeep(obs)
  /\ UNCHANGED <<elemVars, ovfVars, evVars, devVars, length, wanted,
                 data_ptr, reset_pc, posted, env>>
  /\ UNCHANGED pullVars

\* GetBuffer fails with a status other than Empty or Invalidated
ReadFetchError ==
  /\ pc = "fetch"
  /\ ~invalidated
  /\ Fault(TRUE)
  /\ Return(FailedLength(length), "fetchfail",
            [obs EXCEPT !.lastFetch = "error"], data)
  /\ UNCHANGED <<elemVars, ovfVars, evVars, devVars, reset_pc, posted>>
  /\ UNCHANGED pullVars

\* --------------------------------------------------------------------- pull
\* the ring buffer is acquired (caps are set): pulls are served from now on
Acquire ==
  /\ create_pc = "idle"
  /\ ~ringbuffer.acquired
  /\ penv.pulls > 0
  /\ ringbuffer' = [ringbuffer EXCEPT !.acquired = TRUE]
  /\ UNCHANGED <<conf, next_sample, clock_time, initial_timestamp_diff,
                 timeshifted_count, drift_correction_count, create_pc, sample,
                 samples, total_samples, rb_timestamp, first, first_sample,
                 outbuf, flow, penv, pobs>>
  /\ UNCHANGED wasapiVars

\* the producer (the capture thread) has written one more segment
ProducerWrite ==
  /\ ringbuffer.acquired
  /\ ringbuffer.state = "started"
  /\ penv.writes > 0
  /\ penv' = [penv EXCEPT !.writes = @ - 1]
  /\ ringbuffer' = [ringbuffer EXCEPT !.segdone = @ + 1]
  /\ pobs' = [pobs EXCEPT !.quiet = FALSE]
  /\ UNCHANGED <<conf, next_sample, clock_time, initial_timestamp_diff,
                 timeshifted_count, drift_correction_count, create_pc, sample,
                 samples, total_samples, rb_timestamp, first, first_sample,
                 outbuf, flow>>
  /\ UNCHANGED wasapiVars

\* the ring buffer goes to GST_AUDIO_RING_BUFFER_STATE_ERROR
RingBufferError ==
  /\ ringbuffer.acquired
  /\ ringbuffer.state = "started"
  /\ penv.faults > 0
  /\ penv' = [penv EXCEPT !.faults = @ - 1]
  /\ ringbuffer' = [ringbuffer EXCEPT !.state = "error"]
  /\ UNCHANGED <<conf, next_sample, clock_time, initial_timestamp_diff,
                 timeshifted_count, drift_correction_count, create_pc, sample,
                 samples, total_samples, rb_timestamp, first, first_sample,
                 outbuf, flow, pobs>>
  /\ UNCHANGED wasapiVars

\* the reference clock moves on
ClockAdvance ==
  /\ penv.ticks > 0
  /\ penv' = [penv EXCEPT !.ticks = @ - 1]
  /\ clock_time' = clock_time + ClockStep
  /\ pobs' = [pobs EXCEPT !.quiet = FALSE]
  /\ UNCHANGED <<ringbuffer, conf, next_sample, initial_timestamp_diff,
                 timeshifted_count, drift_correction_count, create_pc, sample,
                 samples, total_samples, rb_timestamp, first, first_sample,
                 outbuf, flow>>
  /\ UNCHANGED wasapiVars

\* a new session on the same element: the ring buffer is released and
\* acquired again and no sample has been read yet (next_sample is the
\* sentinel); the fields gst_wasapi_src_init set are not set again
NewSession ==
  /\ create_pc = "idle"
  /\ ringbuffer.acquired
  /\ penv.restarts > 0
  /\ penv' = [penv EXCEPT !.restarts = @ - 1]
  /\ next_sample' = NoSample
  /\ ringbuffer' = [ringbuffer EXCEPT !.segdone = ringbuffer.segbase]
  /\ pobs' = PObsInit
  /\ UNCHANGED <<conf, clock_time, initial_timestamp_diff, timeshifted_count,
                 drift_correction_count, create_pc, sample, samples,
                 total_samples, rb_timestamp, first, first_sample, outbuf,
                 flow>>
  /\ UNCHANGED wasapiVars

\* create returns f without a buffer; its locals die
PullFail(f, o) ==
  /\ create_pc' = "done"
  /\ flow' = f
  /\ outbuf' = NoBuf
  /\ pobs' = PObsFail(o)
  /\ sample' = 0
  /\ samples' = 0
  /\ total_samples' = 0
  /\ rb_timestamp' = GST_CLOCK_TIME_NONE
  /\ first' = FALSE
  /\ first_sample' = FALSE

\* gst_audio_base_src_create from its entry to the read loop: the state
\* check, the length, the offset and the allocation of the buffer
CreateBegin(offset, len, allocOk) ==
  /\ create_pc = "idle"
  /\ penv.pulls > 0
  /\ LET bpf == ringbuffer.bpf
         rounded == PullLength(len, conf.blocksize, ringbuffer.segsize, bpf)
         wrong == offset # -1 /\ WrongOffset(offset, bpf, next_sample)
         smp == IF offset # -1 THEN offset \div bpf
                ELSE gst_audio_base_src_get_offset(next_sample, ringbuffer)
         o == [PObsKeep(pobs) EXCEPT !.offset = offset]
         allocFails == ringbuffer.acquired /\ ~wrong /\ ~allocOk
     IN /\ allocFails => penv.faults > 0
        /\ penv' = [penv EXCEPT !.pulls = @ - 1,
                                !.faults = IF allocFails THEN @ - 1 ELSE @]
        /\ IF ~ringbuffer.acquired
           THEN PullFail("FLUSHING", o)       \* wrong_state
           ELSE IF wrong
           THEN PullFail("ERROR", o)          \* wrong_offset
           ELSE IF ~allocOk
           THEN PullFail("ALLOC_FAILED", o)   \* alloc_failed
           ELSE /\ create_pc' = "read"
                /\ sample' = smp
                /\ samples' = rounded \div bpf
                /\ total_samples' = rounded \div bpf
                /\ rb_timestamp' = GST_CLOCK_TIME_NONE
                /\ first' = TRUE
                /\ first_sample' = (next_sample = NoSample)
                /\ pobs' = [o EXCEPT !.start = smp]
                /\ UNCHANGED <<outbuf, flow>>
  /\ UNCHANGED <<ringbuffer, conf, next_sample, clock_time,
                 initial_timestamp_diff, timeshifted_count,
                 drift_correction_count>>
  /\ UNCHANGED wasapiVars

\* one turn of the read loop: gst_audio_ring_buffer_read returns `read`
\* frames and the timestamp tmp_ts; a full read completes the pull (DISCONT,
\* next_sample, timestamp and duration, slaving, the buffer), a short one ends
\* it on the ring buffer's error state or on a refused wait, or goes round
CreateRead(read, tmp_ts, playing) ==
  /\ create_pc = "read"
  /\ read < samples => penv.shorts > 0
  /\ penv' = [penv EXCEPT !.shorts = IF read < samples THEN @ - 1 ELSE @]
  /\ LET got == first /\ GST_CLOCK_TIME_IS_VALID(tmp_ts)
         rbts == IF got THEN tmp_ts ELSE rb_timestamp
         o == [pobs EXCEPT !.lastRead = read, !.lastTs = tmp_ts,
                           !.filled = total_samples - samples + read]
     IN IF read = samples
        THEN LET ts == gst_util_uint64_scale_int(sample, GST_SECOND,
                                                 ringbuffer.rate)
                 duration ==
                   gst_util_uint64_scale_int(sample + samples, GST_SECOND,
                                             ringbuffer.rate) - ts
                 r == Timestamping(ringbuffer, conf, clock_time, sample,
                                   samples, total_samples, first_sample,
                                   initial_timestamp_diff, rbts)
             IN /\ create_pc' = "done"
                /\ flow' = "OK"
                /\ outbuf' = [timestamp |-> r.timestamp,
                              duration |-> duration,
                              offset |-> sample,
                              offset_end |-> sample + samples,
                              discont |-> Discont(sample, next_sample)]
                /\ next_sample' = r.next_sample
                /\ ringbuffer' = [ringbuffer EXCEPT !.segdone = r.segdone]
                /\ initial_timestamp_diff' = r.initial
                /\ timeshifted_count' =
                     timeshifted_count + (IF r.resync THEN 1 ELSE 0)
                /\ drift_correction_count' =
                     drift_correction_count + (IF r.fired THEN 1 ELSE 0)
                /\ pobs' = PObsComplete(o, r, clock_time, ts, conf.base_time,
                                        ringbuffer.segtotal)
                /\ rb_timestamp' = rbts
                /\ first' = (first /\ ~got)
                /\ UNCHANGED <<sample, samples, total_samples, first_sample>>
        ELSE IF RingBufferErrored(ringbuffer.state)
        THEN /\ PullFail("ERROR", o)          \* got_error
             /\ UNCHANGED <<ringbuffer, next_sample, initial_timestamp_diff,
                            timeshifted_count, drift_correction_count>>
        ELSE IF ~playing
        THEN /\ PullFail("FLUSHING", o)       \* stopped
             /\ UNCHANGED <<ringbuffer, next_sample, initial_timestamp_diff,
                            timeshifted_count, drift_correction_count>>
        ELSE /\ sample' = NextChunkSample(sample, read)
             /\ samples' = RemainingSamples(samples, read)
             /\ rb_timestamp' = rbts
             /\ first' = (first /\ ~got)
             /\ pobs' = o
             /\ UNCHANGED <<ringbuffer, next_sample, initial_timestamp_diff,
                            timeshifted_count, drift_correction_count,
                            create_pc, total_samples, first_sample, outbuf,
                            flow>>
  /\ UNCHANGED <<conf, clock_time>>
  /\ UNCHANGED wasapiVars

\* the caller (basesrc) has taken the result of the pull
CreateDone ==
  /\ create_pc = "done"
  /\ create_pc' = "idle"
  /\ flow' = "none"
  /\ outbuf' = NoBuf
  /\ sample' = 0
  /\ samples' = 0
  /\ total_samples' = 0
  /\ rb_timestamp' = GST_CLOCK_TIME_NONE
  /\ first' = FALSE
  /\ first_sample' = FALSE
  /\ pobs' = PObsKeep(pobs)
  /\ UNCHANGED <<ringbuffer, conf, next_sample, clock_time,
                 initial_timestamp_diff, timeshifted_count,
                 drift_correction_count, penv>>
  /\ UNCHANGED wasapiVars

\* --------------------------------------------------------------------- Next
ReadLengths == {k * nBlockAlign : k \in 1..MaxReadFrames}

Next ==
  \/ Open
  \/ Close
  \/ \E bpf \in BlockAligns, p \in DevicePeriods : Prepare(bpf, p, 2 * p)
  \/ PrepareFail
  \/ Unprepare
  \/ \E n \in 1..MaxBurstFrames, s \in BOOLEAN : DeviceCapture(n, s)
  \/ DeviceInvalidate
  \/ DefaultChanged
  \/ ResetSignal
  \/ \E outcome \in {"ok", "stopfail", "resetfail"} : ResetLocked(outcome)
  \/ \E L \in ReadLengths, startOk \in BOOLEAN : ReadBegin(L, startOk)
  \/ ReadWaitWake
  \/ ReadWaitFail
  \/ \E releaseOk \in BOOLEAN : ReadFetch(releaseOk)
  \/ ReadFetchError
  \/ ReadDone

Spec == Init /\ [][Next]_vars

\* the reader thread is scheduled: a wait whose event is signalled returns
\* and the drain loop runs on
LiveSpec == Spec /\ WF_vars(ReadWaitWake)
                 /\ WF_vars(\E releaseOk \in BOOLEAN : ReadFetch(releaseOk))

\* one session's data path: a longer stream, silent packets and failing
\* calls, without reset and device loss
DataInit == InitWith(DataEnv) /\ QuietPull

DataNext ==
  \/ Open
  \/ \E bpf \in BlockAligns, p \in DevicePeriods : Prepare(bpf, p, 2 * p)
  \/ \E n \in 1..MaxBurstFrames, s \in BOOLEAN : DeviceCapture(n, s)
  \/ \E L \in ReadLengths, startOk \in BOOLEAN : ReadBegin(L, startOk)
  \/ ReadWaitWake
  \/ ReadWaitFail
  \/ \E releaseOk \in BOOLEAN : ReadFetch(releaseOk)
  \/ ReadFetchError
  \/ ReadDone

DataSpec == DataInit /\ [][DataNext]_vars

\* the element over several sessions, with device loss
SessInit == InitWith(SessEnv) /\ QuietPull

SessNext ==
  \/ Open
  \/ Close
  \/ \E bpf \in BlockAligns, p \in DevicePeriods, k \in BufferPeriods :
       Prepare(bpf, p, k * p)
  \/ Unprepare
  \/ \E n \in 1..MaxBurstFrames : DeviceCapture(n, FALSE)
  \/ DeviceInvalidate
  \/ DefaultChanged
  \/ \E L \in ReadLengths : ReadBegin(L, TRUE)
  \/ ReadWaitWake
  \/ ReadFetch(TRUE)
  \/ ReadDone

SessSpec == SessInit /\ [][SessNext]_vars

\* the pull side: create against the ring buffer, its producer and the
\* reference clock, the capture side at rest
PullOffsets ==
  {-1} \cup {(IF next_sample = NoSample THEN 1 ELSE next_sample)
               * ringbuffer.bpf + d : d \in {0, 1, ringbuffer.bpf}}

PullLengths == {0, ringbuffer.segsize \div 2 + 1}

ReadCounts == {0, samples \div 2, samples}

RbTimestamps == {GST_CLOCK_TIME_NONE, 2 * ClockStep}

\* the end-to-end scenario: 4 bytes per frame, segments of 960 frames, reads
\* of 3,840 bytes, bursts of 1,920 frames, three of them
Scenario ==
  [bpf |-> 4, segment_frames |-> 960, read_bytes |-> 3840,
   burst_frames |-> 1920, bursts |-> 3]

ScenarioEnv ==
  [frames |-> Scenario.bursts * Scenario.burst_frames, faults |-> 0,
   resets |-> 0, silents |-> 0, sessions |-> 1, reset |-> FALSE]

ScenarioInit == InitWith(ScenarioEnv) /\ QuietPull

ScenarioNext ==
  \/ Open
  \/ Prepare(Scenario.bpf, Scenario.segment_frames,
             2 * Scenario.segment_frames)
  \/ DeviceCapture(Scenario.burst_frames, FALSE)
  \/ ReadBegin(Scenario.read_bytes, TRUE)
  \/ ReadWaitWake
  \/ ReadFetch(TRUE)
  \/ ReadDone

ScenarioSpec == ScenarioInit /\ [][ScenarioNext]_vars

RestEnv ==
  [frames |-> 0, faults |-> 0, resets |-> 0, silents |-> 0, sessions |-> 0,
   reset |-> FALSE]

PullInit ==
  /\ InitWith(RestEnv)
  /\ device_strid = TRUE
  /\ \E rb \in RingBuffers, c \in Confs : PullInitWith(rb, c, PullEnv, NoSample)

PullNext ==
  \/ Acquire
  \/ ProducerWrite
  \/ RingBufferError
  \/ \E offset \in PullOffsets, len \in PullLengths, allocOk \in BOOLEAN :
       CreateBegin(offset, len, allocOk)
  \/ \E read \in ReadCounts, tmp_ts \in RbTimestamps, playing \in BOOLEAN :
       CreateRead(read, tmp_ts, playing)
  \/ CreateDone

PullSpec == PullInit /\ [][PullNext]_vars

\* the slaving: sequential pulls that nothing interrupts, against the
\* producer and the reference clock
SlaveInit ==
  /\ InitWith(RestEnv)
  /\ device_strid = TRUE
  /\ \E rb \in RingBuffers, c \in Confs : PullInitWith(rb, c, SlaveEnv, NoSample)

SlaveNext ==
  \/ Acquire
  \/ ProducerWrite
  \/ ClockAdvance
  \/ \E len \in PullLengths : CreateBegin(-1, len, TRUE)
  \/ \E tmp_ts \in RbTimestamps : CreateRead(samples, tmp_ts, TRUE)
  \/ CreateDone

SlaveSpec == SlaveInit /\ [][SlaveNext]_vars

\* resample slaving over sessions that follow one another on the element
ResampleConfs ==
  {c \in Confs : c.slave_method = "resample" /\ c.clock = "foreign"}

ResampleInit ==
  /\ InitWith(RestEnv)
  /\ device_strid = TRUE
  /\ \E rb \in RingBuffers, c \in ResampleConfs :
       PullInitWith(rb, c, ResampleEnv, NoSample)

ResampleNext ==
  \/ Acquire
  \/ ProducerWrite
  \/ ClockAdvance
  \/ NewSession
  \/ \E len \in PullLengths : CreateBegin(-1, len, TRUE)
  \/ CreateRead(samples, GST_CLOCK_TIME_NONE, TRUE)
  \/ CreateDone

ResampleSpec == ResampleInit /\ [][ResampleNext]_vars

\* the offset calculator alone: any next_sample against any write-segment
\* count, for small segments
OffsetRingBuffers ==
  {[RingBuffer(sps, t, 1, 1) EXCEPT !.acquired = TRUE, !.segdone = d] :
     sps \in 1..3, t \in 1..3, d \in 0..MaxOffsetSegdone}

OffsetInit ==
  /\ InitWith(RestEnv)
  /\ device_strid = TRUE
  /\ \E rb \in OffsetRingBuffers, n \in {NoSample} \cup 0..MaxOffsetSample :
       PullInitWith(rb, CHOOSE c \in Confs : c.clock = "none",
                    [QuietEnv EXCEPT !.pulls = 1], n)

OffsetNext == CreateBegin(-1, 0, TRUE)

OffsetSpec == OffsetInit /\ [][OffsetNext]_vars

\* ------------------------------------------------------------------ claims
\* the valid bytes of the overflow buffer, oldest first
OverflowValid ==
  BytesAt(overflow_buffer, overflow_buffer_ptr, overflow_buffer_length)

StrictlyIncreasing(q) == \A i \in 1..(Len(q) - 1) : q[i] < q[i + 1]

Reading == pc \in {"wait", "fetch"}

\* C1: a read that starts with an empty overflow buffer and ends without a
\* stop signal, device loss or driver failure returns exactly the requested
\* length, and its bytes are the first bytes of the concatenation of the
\* packets it fetched, silence-flagged packets counting as zeros; while the
\* read runs, what it has filled so far is that concatenation so far.
C1_ReadIsBurstConcatenation ==
  /\ (pc = "returned" /\ obs.ovfStart = 0 /\ obs.how = "ok")
       => /\ ret = obs.reqLen
          /\ Len(data) = obs.reqLen
          /\ data = obs.cat
  /\ (Reading /\ obs.ovfStart = 0)
       => Take(data, data_ptr) = obs.cat

\* a read of two frames filled by a silent packet and then a captured one
C1_Witness ==
  /\ pc = "returned" /\ obs.ovfStart = 0 /\ obs.how = "ok"
  /\ Len(data) = 2 * nBlockAlign
  /\ data[1] = 0
  /\ data[Len(data)] > 0

\* C2: the bytes spilled to the overflow buffer come back byte-identical
\* and oldest first at the very start of the following reads, ahead of
\* every byte those reads fetch; what is not yet restored stays in the
\* buffer in spill order.
C2_OverflowRoundTrip ==
  /\ (pc \in {"wait", "fetch", "returned"} /\ obs.how # "startfail")
       => Take(data, Len(obs.popped)) = obs.popped
  /\ capture_client => OverflowValid = obs.fifo

\* a read that restores spilled bytes and then fetches fresh ones, leaving
\* a remainder of its last packet in the overflow buffer
C2_Witness ==
  /\ pc = "returned" /\ obs.how = "ok"
  /\ Len(obs.popped) > 0
  /\ Len(obs.popped) < obs.reqLen
  /\ overflow_buffer_length > 0

\* C3: the captured bytes the reads deliver, followed by those waiting in
\* the overflow buffer, are strictly increasing stream positions (nothing
\* twice, nothing out of order), and every fetched byte that is neither in
\* the caller's buffer nor in the overflow buffer was delivered, rendered
\* as silence, dropped with a rejected spill or lost with a failed read.
C3_InOrderNoDuplicates ==
  /\ StrictlyIncreasing(
       <<IF pc = "returned" THEN obs.prevMax ELSE obs.maxDelivered>>
       \o (IF pc = "idle" THEN <<>> ELSE DevIds(data))
       \o DevIds(OverflowValid))
  /\ obs.held = (IF Reading THEN NumDev(data) ELSE 0) + NumDev(OverflowValid)

\* a later read of the session delivers captured bytes while others wait
\* in the overflow buffer
C3_Witness ==
  /\ pc = "returned" /\ ret > 0
  /\ obs.prevMax > 0
  /\ NumDev(data) > 0
  /\ overflow_buffer_length > 0

\* C4: in a session in which a read took the device-loss path, the
\* notification was posted exactly once.
C4_NotifiedOncePerSession == obs.sessLoss => obs.sessPosted = 1

\* a fetch step of the reader takes the packet at the head of the queue
FetchesPacket ==
  /\ pc = "fetch" /\ ~invalidated /\ pending # <<>>
  /\ pending' = Tail(pending)
  /\ reset_pc' = reset_pc
  /\ obs'.lastFetch \in {"copied", "spilled", "rejected"}

DoesNotFit ==
  LET want_frames == wanted \div nBlockAlign
      save_length == (Head(pending).frames - want_frames) * nBlockAlign
  IN /\ Head(pending).frames > want_frames
     /\ overflow_buffer_ptr + overflow_buffer_length + save_length
          > overflow_buffer_size

\* the stop event, and not the data-ready event, ends the wait, and the
\* default device has not changed
StopWake ==
  /\ pc = "wait" /\ pc' # "wait"
  /\ stop_handle /\ ~event_handle
  /\ obs'.lastWait # "failed"
  /\ ~(~device_strid /\ default_changed)

\* C5: when the stop event wakes a read that still wants bytes, with no
\* device loss on that wake, the read returns the requested length, the
\* bytes it had copied are kept and exactly the unsatisfied remainder is
\* zero.
C5_StopKeepsCopiedAndZeroFills ==
  [][StopWake =>
       /\ pc' = "returned"
       /\ ret' = length /\ ret' = obs.reqLen /\ ret' > 0
       /\ data_ptr = length - wanted
       /\ Len(data') = length
       /\ \A i \in 1..length :
            data'[i] = IF i <= data_ptr THEN data[i] ELSE 0]_vars

\* a read stopped after it had copied captured bytes
C5_Witness ==
  /\ pc = "returned" /\ obs.how = "stop"
  /\ NumDev(data) > 0
  /\ data[Len(data)] = 0

\* C6 as stated: every read that begins after reset has signalled stop, and
\* that no failure or device loss ends, completes with silence and without
\* fetching from the device.
C6_SilenceEverAfterStop ==
  (pc = "returned" /\ obs.stopBefore /\ obs.how \in {"ok", "stop"})
    => /\ \A i \in DOMAIN data : data[i] = 0
       /\ obs.lastFetch = "none"

\* C6, amended: the wait that finds only the stop event signalled ends the
\* read at once, without a fetch, the remainder being silence, and that
\* wake consumes the stop signal.
C6_StopWakeConsumesStop ==
  [][StopWake =>
       /\ pc' = "returned"
       /\ obs'.how = "stop"
       /\ ~stop_handle'
       /\ pending' = pending
       /\ obs'.lastFetch = obs.lastFetch
       /\ \A i \in (data_ptr + 1)..Len(data') : data'[i] = 0]_vars

\* a read ended by the stop signal of a reset, the signal being used up
C6_Witness ==
  /\ pc = "returned" /\ obs.how = "stop" /\ obs.lastWait = "stop"
  /\ env.reset
  /\ ~stop_handle

\* C7: a read that is in its wait loop while the stop event is signalled
\* eventually returns.
C7_StopEndsTheRead == (Reading /\ stop_handle) ~> (pc = "returned")

\* a read blocked in the dual wait, no data pending, when reset signals stop
C7_Witness ==
  /\ pc = "wait" /\ stop_handle /\ ~event_handle
  /\ env.reset
  /\ pending = <<>>

\* C8 as stated: a read in which the wait failed or GetBuffer failed with
\* another status returns zero.
C8_FailureReturnsZero ==
  (pc = "returned" /\ (obs.lastWait = "failed" \/ obs.lastFetch = "error"))
    => ret = 0

\* C8, amended: a failed GetBuffer (status other than Empty or Invalidated),
\* or a failed wait on a wake that detects no device loss, makes the read
\* return zero whatever it had copied.
C8_FailureWithoutLossReturnsZero ==
  [][(/\ Reading /\ pc' = "returned"
      /\ \/ obs'.lastFetch = "error"
         \/ /\ pc = "wait" /\ obs'.lastWait = "failed"
            /\ ~(~device_strid /\ default_changed))
       => /\ ret' = 0
          /\ data' = data]_vars

\* a read that had copied captured bytes when GetBuffer failed
C8_Witness ==
  /\ pc = "returned" /\ obs.lastFetch = "error"
  /\ ret = 0
  /\ NumDev(data) > 0

\* C9: a read ended by a failing ReleaseBuffer reports zero bytes, and never
\* the requested length over a partly unfilled buffer.
C9_ReleaseFailureReturnsZero ==
  (pc = "returned" /\ obs.how = "releasefail")
    => /\ ret = 0
       /\ ~(ret = obs.reqLen /\ \E i \in DOMAIN data : data[i] = Uninit)

\* C10: when the remainder of a packet does not fit in the overflow buffer,
\* the spill is dropped and reported, the overflow buffer, its read pointer
\* and its valid length stay as they were, and `length` is not touched: the
\* read has all its bytes and, unless a later driver call fails, returns the
\* requested length.
C10_RejectedSpillIsNotFatal ==
  [][/\ (FetchesPacket /\ DoesNotFit)
          => /\ UNCHANGED ovfVars
             /\ obs'.lastFetch = "rejected"
             /\ pc' = "fetch" => (length' = length /\ wanted' = 0)
             /\ pc' = "returned" => ret' = length
             /\ length = obs.reqLen
     /\ (pc = "fetch" /\ pc' = "returned" /\ obs.rejected
           /\ obs'.how = "ok")
          => ret' = obs.reqLen]_vars

\* a read that had a spill rejected and returned the requested length, the
\* earlier spill still in the overflow buffer
C10_Witness ==
  /\ pc = "returned" /\ obs.rejected /\ obs.how = "ok"
  /\ ret = obs.reqLen
  /\ overflow_buffer_length > 0

\* C11: while the element is prepared the overflow buffer has its capacity
\* of 4 * segsize, and read pointer plus valid length never exceeds it; the
\* bytes a restore reads and the bytes a spill writes lie inside the buffer,
\* and a spill changes no byte outside the region it appends.
C11_OverflowWithinCapacity ==
  [][/\ capture_client' =>
          /\ overflow_buffer_size' = 4 * segsize'
          /\ Len(overflow_buffer') = overflow_buffer_size'
          /\ overflow_buffer_ptr' >= 0
          /\ overflow_buffer_length' >= 0
          /\ overflow_buffer_length' <= overflow_buffer_size'
          /\ overflow_buffer_ptr' + overflow_buffer_length'
               <= overflow_buffer_size'
     /\ (pc = "idle" /\ pc' # "idle" /\ overflow_buffer_length > 0)
          => overflow_buffer_ptr
               + (overflow_buffer_length - overflow_buffer_length')
               <= overflow_buffer_size
     /\ (overflow_buffer_length' > overflow_buffer_length)
          => /\ overflow_buffer_length' <= overflow_buffer_size
             /\ \A i \in 1..overflow_buffer_size :
                  (i <= overflow_buffer_length
                     \/ i > overflow_buffer_length')
                    => overflow_buffer'[i] = overflow_buffer[i]]_vars

\* the valid region ends exactly at the capacity, the read pointer having
\* moved into the buffer
C11_Witness ==
  /\ capture_client
  /\ overflow_buffer_ptr > 0
  /\ overflow_buffer_ptr + overflow_buffer_length = overflow_buffer_size

\* a step of create from its entry
PullBegins == create_pc = "idle" /\ create_pc' # "idle"

\* a step of create that completes the pull with a buffer
PullCompletes == create_pc = "read" /\ create_pc' = "done" /\ flow' = "OK"

\* the pull was timestamped by the slaving: a foreign clock, and no
\* timestamp from the ring buffer
Slaved == conf.clock = "foreign" /\ rb_timestamp = GST_CLOCK_TIME_NONE

\* C12: a pull with an explicit offset, once a pull has set the expected next
\* sample, fails with a flow error, without a buffer and with next_sample
\* unchanged, when the offset's sample index is not next_sample, and passes
\* the check (it goes on to read from next_sample, or fails in the
\* allocation) when it is.
C12_ExplicitOffsetMustBeSequential ==
  [][(PullBegins /\ ringbuffer.acquired /\ pobs'.offset # -1
        /\ next_sample # NoSample)
       => IF (pobs'.offset \div ringbuffer.bpf) # next_sample
          THEN /\ create_pc' = "done"
               /\ flow' = "ERROR"
               /\ outbuf' = NoBuf
               /\ next_sample' = next_sample
          ELSE /\ flow' # "ERROR"
               /\ create_pc' = "read" \/ flow' = "ALLOC_FAILED"
               /\ create_pc' = "read" => sample' = next_sample]_vars

\* an explicit offset one sample past the expected one was refused
C12_Witness ==
  /\ create_pc = "done" /\ flow = "ERROR"
  /\ next_sample # NoSample
  /\ pobs.offset = (next_sample + 1) * ringbuffer.bpf
  /\ pobs.lastRead = -1

C14_ResolvedWithinRing ==
  (create_pc = "read" /\ pobs.offset = -1 /\ pobs.lastRead = -1)
    => (ringbuffer.segdone - ringbuffer.segbase)
         - (sample \div ringbuffer.samples_per_seg) < ringbuffer.segtotal

\* the producer had lapped the consumer: the calculator moved the sample
C14_Witness ==
  /\ create_pc = "read" /\ pobs.offset = -1
  /\ next_sample # NoSample
  /\ sample # next_sample

\* C15: a slaved pull in skew mode resyncs exactly when segment_skew >=
\* segtotal, or it is the first pull, or it reads from segment 0; a resync
\* adds exactly one to timeshifted_count, and without resync the ring
\* buffer's write counter stays, next_sample is the end of the buffer and the
\* timestamp is the sample's.
C15_SkewResyncCondition ==
  [][(PullCompletes /\ conf.clock = "foreign" /\ conf.slave_method = "skew"
        /\ rb_timestamp' = GST_CLOCK_TIME_NONE)
       => LET sps == ringbuffer.samples_per_seg
              ns_per_sample == GST_SECOND \div ringbuffer.rate
              running_time == clock_time - conf.base_time
              running_time_segment == (running_time \div ns_per_sample) \div sps
              segment_skew ==
                running_time_segment
                  - (ringbuffer.segdone - ringbuffer.segbase - 1)
              trigger == \/ segment_skew >= ringbuffer.segtotal
                         \/ first_sample
                         \/ sample \div sps = 0
          IN /\ pobs'.resync <=> trigger
             /\ timeshifted_count' =
                  timeshifted_count + (IF trigger THEN 1 ELSE 0)
             /\ ~trigger =>
                  /\ ringbuffer' = ringbuffer
                  /\ next_sample' = sample + samples
                  /\ outbuf'.timestamp = sample * ns_per_sample]_vars

\* a later pull of the session, reading past segment 0, resynced because the
\* clock had run a ring's length ahead of the producer
C15_Witness ==
  /\ create_pc = "done" /\ flow = "OK"
  /\ conf.clock = "foreign" /\ conf.slave_method = "skew"
  /\ rb_timestamp = GST_CLOCK_TIME_NONE
  /\ pobs.resync
  /\ ~first_sample
  /\ sample \div ringbuffer.samples_per_seg > 0

\* C16: of two consecutive pulls at the same clock reading, with no write of
\* the producer in between, at most one resyncs.
C16_ResyncIdempotent ==
  ~(create_pc = "done" /\ flow = "OK" /\ pobs.pair /\ pobs.pairResync
      /\ pobs.resync)

\* C17: in resample mode the drift correction of a slaved pull fires exactly
\* when drift > threshold, drift being |initial_timestamp_diff -
\* timestamp_diff| with the initial value latched on the second sample, and 0
\* when timestamp_diff is 0; it adds exactly one to drift_correction_count.
\* With initial 1,000,000 and threshold 5,000,000, a timestamp_diff of
\* 6,500,000 fires and one of 5,500,000 does not.
C17_DriftFiresAboveThreshold ==
  [][/\ (PullCompletes /\ conf.clock = "foreign"
           /\ conf.slave_method = "resample"
           /\ rb_timestamp' = GST_CLOCK_TIME_NONE)
          => LET timestamp_diff == pobs'.timestamp_diff
                 initial == IF ~first_sample /\ initial_timestamp_diff = 0
                            THEN timestamp_diff
                            ELSE initial_timestamp_diff
                 d == initial - timestamp_diff
                 drift == IF timestamp_diff = 0 THEN 0
                          ELSE IF d < 0 THEN -d ELSE d
                 fires == drift > conf.drift_correction_threshold
             IN /\ pobs'.fired <=> fires
                /\ drift_correction_count' =
                     drift_correction_count + (IF fires THEN 1 ELSE 0)
     /\ DriftCorrection(DriftNs(1000000, 6500000), 5000000)
     /\ ~DriftCorrection(DriftNs(1000000, 5500000), 5000000)]_vars

\* the correction fired against a latched initial_timestamp_diff
C17_Witness ==
  /\ create_pc = "done" /\ flow = "OK"
  /\ conf.clock = "foreign" /\ conf.slave_method = "resample"
  /\ rb_timestamp = GST_CLOCK_TIME_NONE
  /\ pobs.fired
  /\ pobs.latched > 0
  /\ drift_correction_count > 0

\* C18: the timestamp_diff of a slaved pull in resample mode is
\* |clock reading - base_time - timestamp|, timestamp being the pull's
\* sample-derived timestamp.
C18_TimestampDiffFollowsClock ==
  (create_pc = "done" /\ flow = "OK" /\ Slaved
     /\ conf.slave_method = "resample")
    => pobs.timestamp_diff
         = ABS(pobs.clock - conf.base_time - pobs.timestamp)

\* C19: the timestamp of a slaved pull in re-timestamp mode is the clock
\* reading less base_time less the latency of the requested frames, and 0
\* when that is not positive; it is never negative.
C19_ReTimestampClampedAtZero ==
  (create_pc = "done" /\ flow = "OK" /\ Slaved
     /\ conf.slave_method = "retimestamp")
    => LET latency == total_samples * (GST_SECOND \div ringbuffer.rate)
           t == pobs.clock - conf.base_time - latency
       IN /\ outbuf.timestamp = IF t > 0 THEN t ELSE 0
          /\ outbuf.timestamp >= 0

\* a re-timestamped buffer after the clamp, its timestamp not the sample's
C19_Witness ==
  /\ create_pc = "done" /\ flow = "OK" /\ Slaved
  /\ conf.slave_method = "retimestamp"
  /\ outbuf.timestamp > 0
  /\ outbuf.timestamp # pobs.timestamp

\* the packets the reads have fetched from the device so far
ScenarioFetched == captured \div Scenario.burst_frames - Len(pending)

\* C20: in the scenario of 4 bytes per frame, 960-frame segments, reads of
\* 3,840 bytes and 1,920-frame bursts, the first read, finding one burst,
\* returns 3,840 bytes that are the first 960 frames of the burst and leaves
\* exactly the other 960 frames (3,840 bytes) valid in the overflow buffer;
\* the read that follows it is served from the overflow buffer alone: it
\* waits for nothing, fetches nothing, returns those 960 frames and leaves
\* the overflow buffer empty.
C20_ScenarioSecondReadFromOverflow ==
  (pc = "returned" /\ nBlockAlign = Scenario.bpf
     /\ obs.reqLen = Scenario.read_bytes)
    => /\ (obs.prevMax = 0 /\ ScenarioFetched = 1)
            => /\ obs.how = "ok" /\ ret = Scenario.read_bytes
               /\ obs.lastWait = "data" /\ obs.lastFetch = "empty"
               /\ data = [i \in 1..Scenario.read_bytes |-> i]
               /\ overflow_buffer_length = 960 * Scenario.bpf
               /\ BytesAt(overflow_buffer, overflow_buffer_ptr,
                          overflow_buffer_length)
                    = [i \in 1..Scenario.read_bytes
                         |-> Scenario.read_bytes + i]
       /\ (obs.ovfStart = Scenario.read_bytes)
            => /\ obs.how = "ok" /\ ret = Scenario.read_bytes
               /\ obs.lastWait = "none" /\ obs.lastFetch = "none"
               /\ data = obs.popped
               /\ overflow_buffer_length = 0
       /\ (obs.prevMax = Scenario.read_bytes /\ ScenarioFetched = 1)
            => /\ obs.ovfStart = Scenario.read_bytes
               /\ data = [i \in 1..Scenario.read_bytes
                            |-> Scenario.read_bytes + i]

\* the second read of the scenario has returned the spilled 960 frames, one
\* burst fetched in all
C20_Witness ==
  /\ pc = "returned" /\ nBlockAlign = Scenario.bpf
  /\ obs.reqLen = Scenario.read_bytes
  /\ obs.prevMax = Scenario.read_bytes /\ ScenarioFetched = 1
  /\ obs.lastWait = "none" /\ obs.lastFetch = "none"
  /\ ret = Scenario.read_bytes
  /\ overflow_buffer_length = 0

\* C21: the bytes of a silence-flagged packet are zero wherever the read puts
\* them: those it writes to the caller's buffer, and those of the packet's
\* remainder it spills to the overflow buffer, which a later read delivers
\* unchanged.
C21_SilenceIsZeroEverywhere ==
  [][(FetchesPacket /\ Head(pending).silent)
       => LET b == Head(pending)
              read_len ==
                MIN(b.frames, wanted \div nBlockAlign) * nBlockAlign
              spilled == Drop(OverflowValid', overflow_buffer_length)
          IN /\ \A i \in 1..read_len : data'[data_ptr + i] = 0
             /\ \A i \in DOMAIN spilled : spilled[i] = 0]_vars

\* C22: the offset calculator returns write segment x samples_per_seg when
\* next_sample is the sentinel or the write segment is segtotal or more
\* segments ahead of next_sample's segment, and next_sample itself in every
\* other case; it changes neither next_sample nor the ring buffer, and a
\* catch-up moves the read position forward.
C22_OffsetCalculatorCases ==
  [][(PullBegins /\ create_pc' = "read" /\ pobs'.offset = -1)
       => LET sps == ringbuffer.samples_per_seg
              write_segment == ringbuffer.segdone - ringbuffer.segbase
              lapped == /\ next_sample # NoSample
                        /\ write_segment - (next_sample \div sps)
                             >= ringbuffer.segtotal
          IN /\ sample' = IF next_sample = NoSample \/ lapped
                          THEN write_segment * sps
                          ELSE next_sample
             /\ lapped => sample' > next_sample
             /\ next_sample' = next_sample
             /\ ringbuffer' = ringbuffer]_vars

\* a catch-up at the smallest lag that causes one: the write segment exactly
\* segtotal segments ahead of the segment of next_sample
C22_Witness ==
  /\ create_pc = "read" /\ pobs.offset = -1 /\ pobs.lastRead = -1
  /\ next_sample # NoSample
  /\ (ringbuffer.segdone - ringbuffer.segbase)
       - (next_sample \div ringbuffer.samples_per_seg) = ringbuffer.segtotal
  /\ sample = (ringbuffer.segdone - ringbuffer.segbase)
                * ringbuffer.samples_per_seg
  /\ sample > next_sample

\* the sample at which the pull in progress started reading, before the
\* loop moved `sample` past the frames the short reads returned
StartSample == pobs.start

\* C23: a delivered buffer is flagged DISCONT exactly when the pull is not
\* the first of the session and the sample it started reading at is not the
\* expected next_sample, however many short reads the pull needed.
C23_DiscontIffGap ==
  [][PullCompletes
       => (outbuf'.discont
             <=> (next_sample # NoSample /\ StartSample # next_sample))]_vars

\* C24: a pull that completes without a resync of the skew or resample
\* slaving leaves next_sample at the sample it started reading at plus the
\* frames of the buffer it delivers, however many short reads it needed.
C24_NextSampleIsStartPlusFrames ==
  [][(PullCompletes /\ ~pobs'.resync)
       => next_sample' = StartSample + total_samples]_vars

\* a pull that needed a retry after a short read of some frames and
\* completed without resync
C24_Witness ==
  /\ create_pc = "done" /\ flow = "OK"
  /\ ~pobs.resync
  /\ samples > 0 /\ samples < total_samples
  /\ next_sample = sample + samples

\* C25: the sample-derived timestamp of a completed pull is its starting
\* sample x GST_SECOND / rate, the duration runs from there to the end of the
\* buffer's frames, and the buffer's offset and offset-end are the starting
\* sample and the starting sample plus the frames delivered, however many
\* short reads the pull needed (the rate divides GST_SECOND).
C25_TimestampDurationOffsets ==
  [][PullCompletes
       => LET ns_per_sample == GST_SECOND \div ringbuffer.rate
              end == StartSample + total_samples
              timestamp == StartSample * ns_per_sample
          IN /\ pobs'.timestamp = timestamp
             /\ outbuf'.duration = end * ns_per_sample - timestamp
             /\ outbuf'.offset = StartSample
             /\ outbuf'.offset_end = end]_vars

\* a turn of the read loop whose ring buffer read came back short, the ring
\* buffer not being in its error state
ShortRead ==
  /\ create_pc = "read"
  /\ penv'.shorts = penv.shorts - 1
  /\ pobs'.lastRead < samples
  /\ ringbuffer.state # "error"

\* a turn of the read loop that ends with the loop going round
GoesRound ==
  create_pc = "read" /\ create_pc' = "read" /\ penv'.shorts = penv.shorts - 1

\* C26: after a ring buffer read that returns fewer frames than asked for,
\* the ring buffer not in error, the pull waits for leave to go on. Granted,
\* it reads again for exactly the frames still missing, from the sample right
\* after those it has, and the timestamp it works with is the first valid one
\* a read gave it; refused, it returns FLUSHING without a buffer and with
\* next_sample as it was.
C26_ShortReadWaitsAndRetries ==
  [][/\ ShortRead
          => \/ /\ create_pc' = "read"
                /\ samples' = samples - pobs'.lastRead
                /\ sample' = sample + pobs'.lastRead
                /\ total_samples' = total_samples
                /\ next_sample' = next_sample
                /\ outbuf' = outbuf
             \/ /\ create_pc' = "done"
                /\ flow' = "FLUSHING"
                /\ outbuf' = NoBuf
                /\ next_sample' = next_sample
     /\ (GoesRound \/ PullCompletes)
          => rb_timestamp' = IF rb_timestamp # GST_CLOCK_TIME_NONE
                             THEN rb_timestamp
                             ELSE pobs'.lastTs]_vars

\* a pull that got a valid timestamp with a short read of some frames, was
\* let go on, and completed with a read that gave no timestamp
C26_Witness ==
  /\ create_pc = "done" /\ flow = "OK"
  /\ samples > 0 /\ samples < total_samples
  /\ rb_timestamp # GST_CLOCK_TIME_NONE
  /\ pobs.lastTs = GST_CLOCK_TIME_NONE

\* a completing step of a pull the skew or resample slaving timestamps
SkewSlavedCompletes ==
  /\ PullCompletes
  /\ conf.clock = "foreign"
  /\ conf.slave_method \in {"skew", "resample"}
  /\ rb_timestamp' = GST_CLOCK_TIME_NONE

\* C27: a resync of the skew or resample slaving advances the ring buffer's
\* write counter by running_time_segment - last_written_segment, so that the
\* last written segment becomes the running-time segment; the read position
\* becomes the new write segment x samples_per_seg, the buffer's timestamp
\* that sample x GST_SECOND / rate, and next_sample that sample plus the
\* frames delivered.
C27_ResyncRealignsToWriteSegment ==
  [][(SkewSlavedCompletes /\ pobs'.resync)
       => LET sps == ringbuffer.samples_per_seg
              ns_per_sample == GST_SECOND \div ringbuffer.rate
              running_time_segment ==
                ((clock_time - conf.base_time) \div ns_per_sample) \div sps
              last_written_segment ==
                ringbuffer.segdone - ringbuffer.segbase - 1
              write_segment == ringbuffer'.segdone - ringbuffer'.segbase
              new_sample == write_segment * sps
          IN /\ ringbuffer'.segdone
                  = ringbuffer.segdone
                      + (running_time_segment - last_written_segment)
             /\ write_segment - 1 = running_time_segment
             /\ outbuf'.timestamp = new_sample * ns_per_sample
             /\ next_sample' = new_sample + total_samples]_vars

\* C28: the ring buffer's write-segment counter never decreases, whatever
\* the slave mode and whatever makes a pull resync.
C28_WriteCounterMonotonic ==
  [][ringbuffer'.segdone >= ringbuffer.segdone]_vars

\* C29: a pull whose drift correction fires takes the resync branch in the
\* same pull, leaves initial_timestamp_diff unset (0) and adds exactly one to
\* drift_correction_count and, by the resync, one to timeshifted_count; a
\* slaved pull of the session that finds initial_timestamp_diff unset latches
\* its own timestamp_diff; drift_correction_count never exceeds
\* timeshifted_count.
C29_DriftCorrectionForcesResync ==
  [][/\ (PullCompletes /\ pobs'.fired)
          => /\ pobs'.resync
             /\ initial_timestamp_diff' = 0
             /\ drift_correction_count' = drift_correction_count + 1
             /\ timeshifted_count' = timeshifted_count + 1
     /\ (SkewSlavedCompletes /\ conf.slave_method = "resample"
           /\ ~first_sample /\ initial_timestamp_diff = 0)
          => pobs'.latched = pobs'.timestamp_diff
     /\ drift_correction_count' <= timeshifted_count']_vars

\* a correction fired, and forced the resync, on a pull that was not the
\* first of the session and did not read from segment 0
C29_Witness ==
  /\ create_pc = "done" /\ flow = "OK"
  /\ pobs.fired /\ pobs.resync
  /\ ~first_sample
  /\ sample \div ringbuffer.samples_per_seg > 0
  /\ initial_timestamp_diff = 0
  /\ drift_correction_count > 0
  /\ drift_correction_count <= timeshifted_count

\* C30: in every session of resample slaving, the first on the element or a
\* later one, the second pull works with initial_timestamp_diff latched to
\* its own timestamp_diff, and the pulls after it leave a latched (non-zero)
\* initial_timestamp_diff as it is unless a drift correction fires.
C30_LatchedOnSecondPull ==
  [][(SkewSlavedCompletes /\ conf.slave_method = "resample")
       => /\ pobs.done = 1 => pobs'.latched = pobs'.timestamp_diff
          /\ (pobs.done >= 2 /\ initial_timestamp_diff # 0 /\ ~pobs'.fired)
               => initial_timestamp_diff' = initial_timestamp_diff]_vars


\* ---------------------------------------------------------------- C31
\* C31: in Resample mode, as long as at every pull the reference clock's
\* running time equals the sample-derived timestamp and segment_skew stays
\* below the total number of segments, drift correction never fires:
\* drift_correction_count stays 0 over any number of sequential pulls.
InStepResample == conf.slave_method = "resample" /\ pobs.insync

C31_NoDriftCorrectionInStep == InStepResample => drift_correction_count = 0


\* ---------------------------------------------------------------- C32
\* what the skew branch makes of the inputs of the pull in progress
SkewOfPull ==
  SkewSlave("skew", ringbuffer, conf, clock_time, sample, samples,
            first_sample, initial_timestamp_diff,
            gst_util_uint64_scale_int(sample, GST_SECOND, ringbuffer.rate))

\* C32: resample mode is skew mode plus drift correction: on a pull whose
\* drift correction does not fire, the resample branch produces the buffer
\* timestamp, the next_sample, the write-counter position and the change of
\* timeshifted_count that the skew branch produces for the same next_sample,
\* write-segment count, clock reading, base time and pull length.
C32_ResampleIsSkewWithoutDrift ==
  [][(SkewSlavedCompletes /\ conf.slave_method = "resample" /\ ~pobs'.fired)
       => /\ outbuf'.timestamp = SkewOfPull.timestamp
          /\ next_sample' = SkewOfPull.next_sample
          /\ ringbuffer'.segdone = SkewOfPull.segdone
          /\ timeshifted_count' - timeshifted_count =
               (IF SkewOfPull.resync THEN 1 ELSE 0)]_vars


\* ---------------------------------------------------------------- C33
\* a step of a pull: it begins, ends a read, goes round, or returns
PullStep == create_pc' # create_pc \/ sample' # sample

\* the step leaves the drift correction's fields alone
DriftFieldsKept ==
  /\ drift_correction_count' = drift_correction_count
  /\ initial_timestamp_diff' = initial_timestamp_diff

\* C33: pulls with slave method none or re-timestamp never advance the ring
\* buffer's write counter, never change timeshifted_count,
\* drift_correction_count or initial_timestamp_diff, and set next_sample to
\* nothing but the pull's start sample plus its frames; pulls with slave
\* method skew never change drift_correction_count or initial_timestamp_diff.
C33_SlaveMethodsKeepTheirFrame ==
  [][PullStep =>
       /\ conf.slave_method \in {"none", "retimestamp"} =>
            /\ ringbuffer'.segdone = ringbuffer.segdone
            /\ timeshifted_count' = timeshifted_count
            /\ DriftFieldsKept
            /\ next_sample' # next_sample =>
                 next_sample' = StartSample + total_samples
       /\ conf.slave_method = "skew" => DriftFieldsKept]_vars

\* a re-timestamp pull, slaved to a foreign clock that is a whole ring buffer
\* ahead of the producer, has completed
C33_Witness ==
  /\ create_pc = "done"
  /\ flow = "OK"
  /\ Slaved
  /\ conf.slave_method = "retimestamp"
  /\ RunningTimeSegment(clock_time, conf.base_time, ringbuffer.rate,
                        ringbuffer.samples_per_seg)
       - LastWrittenSegment(ringbuffer) >= ringbuffer.segtotal
  /\ next_sample = StartSample + total_samples


\* ---------------------------------------------------------------- C34
\* C34: every packet a read fetches is passed to ReleaseBuffer with its full
\* frame count in the same turn of the drain loop, whatever part of it was
\* copied, zero-filled, spilled or dropped: whenever the read is about to
\* fetch again, and when it returns, no fetched frame is unreleased.
C34_FetchedPacketsAreReleased == obs.unreleased = 0

\* the read is about to fetch again after a packet of which nothing fitted
\* and all was spilled
C34_Witness ==
  /\ pc = "fetch"
  /\ wanted = 0
  /\ obs.lastFetch = "spilled"
  /\ pending # <<>>


\* ---------------------------------------------------------------- C35
\* what of the packet at the head of the device's queue does not fit the
\* bytes the read still wants
Remainder ==
  LET from == BurstBytes(Head(pending), nBlockAlign)
      want_frames == wanted \div nBlockAlign
      read_len == MIN(Head(pending).frames, want_frames) * nBlockAlign
  IN SubSeq(from, read_len + 1, Len(from))

\* the drain loop is left only on Empty, a failure or device loss, also once
\* nothing is wanted any more
DrainsUntilEmpty ==
  (pc = "fetch" /\ pc' # "fetch")
    => \/ pending = <<>>
       \/ obs'.how \in {"lost", "fetchfail", "releasefail"}

\* Empty ends the drain loop and nothing else: the read waits again if it
\* wants more, and returns the requested length if not
EmptyIsNoError ==
  (pc = "fetch" /\ pc' # "fetch" /\ obs'.lastFetch = "empty")
    => \/ pc' = "wait" /\ wanted' = wanted /\ wanted > 0 /\ data' = data
       \/ /\ pc' = "returned" /\ wanted = 0
          /\ ret' = obs.reqLen /\ ret' > 0 /\ obs'.how = "ok"

\* C35 as stated: once woken by the data-ready event the read keeps fetching
\* until the driver reports Empty, a failure or device loss, even after the
\* requested bytes are satisfied; every packet remainder beyond the requested
\* length is appended to the overflow buffer in capture order; Empty only
\* ends the drain loop and is never an error or a zero-length read.
C35_DrainAppendsEveryRemainder ==
  [][/\ DrainsUntilEmpty
     /\ EmptyIsNoError
     /\ (FetchesPacket /\ Remainder # <<>>)
          => OverflowValid' = OverflowValid \o Remainder]_vars

\* C35, amended: as stated, except that a remainder is appended only if it
\* fits the capacity left in the overflow buffer; one that does not fit is
\* dropped whole and the overflow buffer stays as it was.
C35_DrainAppendsRemainderThatFits ==
  [][/\ DrainsUntilEmpty
     /\ EmptyIsNoError
     /\ (FetchesPacket /\ Remainder # <<>>)
          => IF DoesNotFit
             THEN OverflowValid' = OverflowValid
             ELSE OverflowValid' = OverflowValid \o Remainder]_vars

\* a read woken once returned on Empty with the remainders of more than one
\* packet in the overflow buffer, in capture order
C35_Witness ==
  /\ pc = "returned" /\ obs.how = "ok"
  /\ obs.lastFetch = "empty"
  /\ overflow_buffer_length > MaxBurstFrames * nBlockAlign
  /\ StrictlyIncreasing(OverflowValid)


\* ---------------------------------------------------------------- C36
\* the dual wait of the read returns, for an event or with a failure
WaitReturns == pc = "wait" /\ pc' # "wait"

\* C36: after every return of the dual wait with the default-device-changed
\* flag set and no device selected, the read takes the device-loss path: it
\* returns the requested length without fetching and posts the notification
\* unless one was posted, also when the stop event ended the wait; with a
\* device selected only an invalidated device makes a read take the loss
\* path or post a notification, whatever the flag.
C36_DefaultChangeIsDeviceLoss ==
  [][/\ (WaitReturns /\ ~device_strid /\ default_changed)
          => /\ pc' = "returned"
             /\ obs'.how = "lost"
             /\ ret' = obs.reqLen /\ ret' > 0
             /\ pending' = pending
             /\ data' = data
             /\ eos_sent'
             /\ posted' = posted + (IF eos_sent THEN 0 ELSE 1)
     /\ (device_strid /\ pc' # pc /\ ~invalidated)
          => /\ posted' = posted
             /\ pc' = "returned" => obs'.how # "lost"]_vars

\* the stop event of a reset ended the wait and the read took the loss path
C36_Witness ==
  /\ pc = "returned" /\ obs.how = "lost"
  /\ obs.lastWait = "stop"
  /\ env.reset
  /\ ~device_strid /\ default_changed
  /\ posted = 1


\* ---------------------------------------------------------------- C37
\* C37: every execution of read and of reset releases the object lock it took
\* before it returns, also when starting, stopping or resetting the client
\* fails: outside the locked sections of read and reset, which are single
\* steps here, the lock is free, so that a later read or reset can take it.
C37_LockReleasedOnEveryPath == ~object_lock


\* ---------------------------------------------------------------- C38
\* the read is blocked in the dual wait: neither event is signalled
BlockedInWait == pc = "wait" /\ ~event_handle /\ ~stop_handle

\* C38: however reset (signal stop; then, under the lock, stop and reset the
\* client and set needs-restart) interleaves with the reads (under the lock,
\* restart the client if needs-restart and clear it; then wait), no read is
\* left blocked in the dual wait while the client is stopped and needs-restart
\* is set and the stop event is no longer signalled.
C38_NoReadBlockedOnStoppedClient ==
  ~(BlockedInWait /\ ~running /\ client_needs_restart)


SpillAppended == overflow_buffer_length' > overflow_buffer_length

\* the read restores from the overflow buffer and leaves bytes in it
RestoreLeavesBytes ==
  pc = "idle" /\ pc' # "idle" /\ overflow_buffer_length' > 0

\* C40: whenever a spill is appended to the overflow buffer its read pointer
\* is 0, and a read pointer above 0 always comes with a valid length above 0;
\* a read that leaves unread bytes in the overflow buffer returns without a
\* wait or a fetch; so the spill, written at the index of the valid length,
\* lands right behind the unread bytes and changes none of them.
C40_SpillFindsPointerAtStart ==
  [][/\ overflow_buffer_ptr' > 0 => overflow_buffer_length' > 0
     /\ SpillAppended
          => /\ overflow_buffer_ptr = 0 /\ overflow_buffer_ptr' = 0
             /\ SpillOffset(overflow_buffer_ptr, overflow_buffer_length)
                  = overflow_buffer_ptr + overflow_buffer_length
             /\ \A i \in 1..overflow_buffer_length :
                  overflow_buffer'[i] = overflow_buffer[i]
     /\ RestoreLeavesBytes
          => /\ pc' = "returned" /\ ret' = obs'.reqLen
             /\ overflow_buffer_ptr' > 0
             /\ pending' = pending]_vars

\* a read that began by emptying an overflow buffer whose pointer an earlier
\* read had moved has fetched a packet and spilled its remainder
C40_Witness ==
  /\ pc = "fetch"
  /\ obs.ovfStart > 0 /\ obs.ptrStart > 0
  /\ obs.lastFetch = "spilled"
  /\ overflow_buffer_ptr = 0
  /\ overflow_buffer_length > 0

====
